---- MODULE Spec2Model ----
(***************************************************************************)
(* Solar-System-Explorer: the event search scheduler (hooks/useSimulation), *)
(* the App handlers that drive it, and the event window / optimal-time     *)
(* functions of utils/astronomy.                                           *)
(*                                                                         *)
(* Time is an integer number of ticks, TicksPerDay ticks to the day; a     *)
(* tick plays the part of the millisecond of a JavaScript Date (new        *)
(* Date(t) drops the fraction of t).  Angles are integers, in thousandths  *)
(* of a degree.  Positions are not computed: the ephemeris is a table      *)
(* (the sky) that gives, for every body and instant, the intermediate      *)
(* values the detection predicates compute from the positions: the         *)
(* Earth-Sun-body angle, the two distances and the ecliptic longitude.     *)
(***************************************************************************)
EXTENDS Integers, Sequences, FiniteSets, TLC

VARIABLES
  sky,               \* the ephemeris (catalog + date -> geometry), fixed
  settings,          \* AppSettings: the fields the scheduler reads
  currentDate,       \* useState currentDate (ticks)
  isPlaying,         \* useState isPlaying
  timeDirection,     \* useState timeDirection, 1 or -1
  searchState,       \* useState searchState
  lastEventGuardRef, \* useRef: NoGuard or [key, start, end]
  calcDateRef,       \* useRef: scan position of the calculation batches
  calcTargetRef,     \* useRef: NoTarget or [type, ids, strictMode, tolerance, solarRadius]
  timers,            \* pending setTimeout(runCalculationBatch, 0) callbacks
  now,               \* wall clock, Date.now()
  lastRealTimeRef,   \* useRef lastRealTimeRef
  speedMultiplier,   \* useState speedMultiplier, in eighths (8 is x1)
  trace,             \* history: what the last handler did
  probe              \* the call of a pure function under test and its result

vars == <<sky, settings, currentDate, isPlaying, timeDirection, searchState,
          lastEventGuardRef, calcDateRef, calcTargetRef, timers, now,
          lastRealTimeRef, speedMultiplier, trace, probe>>

----------------------------------------------------------------------------
(* Units and program constants *)

TicksPerDay == 60
MaxSearches == 2
DAY == TicksPerDay

DEFAULT_SUN_ANGULAR_RADIUS_DEG == 266
DEFAULT_TOLERANCE == 1000
BATCH_SIZE == 200
MAX_FOUND_EVENTS == 50
MAX_YEARS_SEARCHED == 2000
DAYS_PER_YEAR == 365
EXPANSION_CAP_DAYS == 3650
COARSE_STEPS == 20
TERNARY_ITERATIONS == 10
INITIAL_MIN_METRIC == 999000
FULL_CIRCLE == 360000
BASE_SPEED_DAYS_PER_SEC == 7
ITERATIONS_LOW == 4
ITERATIONS_MEDIUM == 15
ITERATIONS_HIGH == 30

Abs(x) == IF x < 0 THEN -x ELSE x
Min2(a, b) == IF a < b THEN a ELSE b
Max2(a, b) == IF a > b THEN a ELSE b

(* The least i in lo..hi with P(i), hi+1 when there is none: the index at  *)
(* which a `for (i = lo; i <= hi; i++) { if (P(i)) break; }` loop stops.   *)
(* The range is split in halves, left half first, so that the evaluation   *)
(* stays shallow for the 200-step and 3651-step loops of the program.      *)
RECURSIVE FirstIndex(_, _, _)
FirstIndex(P(_), lo, hi) ==
  IF lo > hi THEN hi + 1
  ELSE IF lo = hi THEN (IF P(lo) THEN lo ELSE hi + 1)
  ELSE LET mid == (lo + hi) \div 2
           l   == FirstIndex(P, lo, mid)
       IN  IF l <= mid THEN l ELSE FirstIndex(P, mid + 1, hi)

----------------------------------------------------------------------------
(* The ephemeris *)

Bodies == {"mercury", "venus", "mars", "jupiter"}

(* A cell is the geometry of one instant: for each body the angle between  *)
(* Earth->Sun and Earth->body, the Earth-body distance, the Earth-relative *)
(* ecliptic longitude; and the Earth-Sun distance.                         *)
Cell(angM, distM, angV, distV, lonM, lonJ) ==
  [ang  |-> [b \in Bodies |-> IF b = "mercury" THEN angM ELSE IF b = "venus" THEN angV ELSE 90000],
   dist |-> [b \in Bodies |-> IF b = "mercury" THEN distM ELSE IF b = "venus" THEN distV ELSE 5],
   lon  |-> [b \in Bodies |-> IF b = "mars" THEN lonM ELSE IF b = "jupiter" THEN lonJ ELSE 0],
   sunDist |-> 3]

(* A catalog gives the heliocentric position of some bodies, in integer    *)
(* units; the Sun is the origin, and so is a body the catalog lacks.       *)
CatalogIds == {"sun", "earth", "mercury", "pluto"}

Origin == [x |-> 0, y |-> 0, z |-> 0]

Vec(a, b, c) == [x |-> a, y |-> b, z |-> c]

getPositionHelper(catalog, id) ==
  IF id = "sun" THEN Origin
  ELSE IF id \notin DOMAIN catalog THEN Origin
  ELSE catalog[id]

subtractVectors(a, b) == [x |-> a.x - b.x, y |-> a.y - b.y, z |-> a.z - b.z]

dotProduct(a, b) == a.x * b.x + a.y * b.y + a.z * b.z

(* A length is carried as its square: the square root is increasing, so    *)
(* the comparisons of two lengths, and of a length with 0, are the same.   *)
magnitude(v) == dotProduct(v, v)

(* Angles come out of acos rounded up to the next value of a grid that     *)
(* holds every tolerance in use, so that each test angle <= tolerance has  *)
(* its exact outcome.  A row of the grid is an angle g in thousandths of a *)
(* degree and the integer part of 1 / tan(g)^2.                            *)
AngleGrid == << <<266, 46395>>, <<500, 13130>>, <<1000, 3282>>, <<2000, 820>>,
                <<45000, 1>> >>

RECURSIVE AngleOnGrid(_, _, _)
AngleOnGrid(crossSq, dotSq, i) ==
  IF i > Len(AngleGrid) THEN 90000
  ELSE IF crossSq <= dotSq \div AngleGrid[i][2] THEN AngleGrid[i][1]
  ELSE AngleOnGrid(crossSq, dotSq, i + 1)

angleBetweenVectors3D(v1, v2) ==
  LET dot  == dotProduct(v1, v2)
      mag1 == magnitude(v1)
      mag2 == magnitude(v2)
  IN  IF mag1 = 0 \/ mag2 = 0 THEN 0
      ELSE IF dot < 0 THEN 180000
      ELSE IF dot = 0 THEN 90000
      ELSE IF mag1 * mag2 = dot * dot THEN 0
      ELSE AngleOnGrid(mag1 * mag2 - dot * dot, dot * dot, 1)

(* What isTransit computes from the positions, for every id at once.       *)
GeometryCell(catalog) ==
  LET posEarth    == getPositionHelper(catalog, "earth")
      vecEarthSun == subtractVectors(Origin, posEarth)
      vecEarthPlanet(id) == subtractVectors(getPositionHelper(catalog, id), posEarth)
  IN  [ang  |-> [id \in CatalogIds |->
                   angleBetweenVectors3D(vecEarthSun, vecEarthPlanet(id))],
       dist |-> [id \in CatalogIds |-> magnitude(vecEarthPlanet(id))],
       sunDist |-> magnitude(vecEarthSun)]

(* A sky is a catalog, the same at every instant, or a table that repeats  *)
(* every `period` days.  A day of a table is cut in equal slots, each      *)
(* with its own geometry.  The first Len(head) days of a period are the    *)
(* rows of `head`; the days after them, up to day `run` of the period, are *)
(* all the row `sub`; on the other days the geometry is `off`.             *)
TableCell(s, t) ==
  LET d   == t \div DAY
      r   == d % s.period
      row == IF r < Len(s.head) THEN s.head[r + 1]
             ELSE IF r < s.run THEN s.sub
             ELSE <<s.off>>
      k   == (((t % DAY) * Len(row)) \div DAY) + 1
  IN  row[k]

SkyCell(s, t) ==
  IF "catalog" \in DOMAIN s THEN GeometryCell(s.catalog) ELSE TableCell(s, t)

----------------------------------------------------------------------------
(* utils/astronomy: event detection *)

(* Array.prototype.sort() on ids: the default order of the id strings.     *)
IdRank(id) ==
  CASE id = "jupiter" -> 1 [] id = "mars" -> 2 [] id = "mercury" -> 3
    [] id = "venus" -> 4 [] OTHER -> 5

SortIds(ids) == SortSeq(ids, LAMBDA a, b : IdRank(a) < IdRank(b))

Range(f) == {f[i] : i \in DOMAIN f}

(* A plausible fault: the strict flag is not consulted.                     *)
isTransitIgnoringStrict(s, planetName, t, toleranceDeg, strictMode, solarRadiusDeg) ==
  LET c == SkyCell(s, t)
  IN  c.ang[planetName] <= toleranceDeg /\ c.dist[planetName] < c.sunDist

(* A plausible fault: a body as far as the Sun counts as in front of it.   *)
isTransitNotFarther(s, planetName, t, toleranceDeg, strictMode, solarRadiusDeg) ==
  LET c == SkyCell(s, t)
      effectiveTolerance == IF strictMode THEN solarRadiusDeg ELSE toleranceDeg
  IN  c.ang[planetName] <= effectiveTolerance /\ c.dist[planetName] <= c.sunDist

isTransit(s, planetName, t, toleranceDeg, strictMode, solarRadiusDeg) ==
  LET c            == SkyCell(s, t)
      angleDeg     == c.ang[planetName]
      distToSun    == c.sunDist
      distToPlanet == c.dist[planetName]
      effectiveTolerance == IF strictMode THEN solarRadiusDeg ELSE toleranceDeg
  IN  angleDeg <= effectiveTolerance /\ distToPlanet < distToSun

(* A plausible fault: the longitudes are not sorted before the gaps are    *)
(* measured.                                                               *)
LongitudeSpanUnsorted(s, t, targetIds) ==
  LET c    == SkyCell(s, t)
      lons == [i \in 1..Len(targetIds) |-> c.lon[targetIds[i]]]
      n    == Len(lons)
      gaps == {lons[i + 1] - lons[i] : i \in 1..(n - 1)}
      wrapGap == FULL_CIRCLE - (lons[n] - lons[1])
      maxGap0 == IF \E g \in gaps : g > 0
                 THEN CHOOSE g \in gaps : \A h \in gaps : h <= g
                 ELSE 0
      maxGap  == IF wrapGap > maxGap0 THEN wrapGap ELSE maxGap0
  IN  FULL_CIRCLE - maxGap

(* A plausible fault: the gap from the last longitude round to the first   *)
(* is left out.                                                            *)
LongitudeSpanNoWrap(s, t, targetIds) ==
  LET c    == SkyCell(s, t)
      lons == SortSeq([i \in 1..Len(targetIds) |-> c.lon[targetIds[i]]],
                      LAMBDA a, b : a < b)
      gaps == {lons[i + 1] - lons[i] : i \in 1..(Len(lons) - 1)}
      maxGap == IF \E g \in gaps : g > 0
                THEN CHOOSE g \in gaps : \A h \in gaps : h <= g
                ELSE 0
  IN  FULL_CIRCLE - maxGap

(* 360 - maxGap of the sorted longitudes, the wrap-around gap included.    *)
LongitudeSpan(s, t, targetIds) ==
  LET c    == SkyCell(s, t)
      lons == SortSeq([i \in 1..Len(targetIds) |-> c.lon[targetIds[i]]],
                      LAMBDA a, b : a < b)
      n    == Len(lons)
      gaps == {lons[i + 1] - lons[i] : i \in 1..(n - 1)}
      wrapGap == FULL_CIRCLE - (lons[n] - lons[1])
      maxGap0 == IF \E g \in gaps : g > 0
                 THEN CHOOSE g \in gaps : \A h \in gaps : h <= g
                 ELSE 0
      maxGap  == IF wrapGap > maxGap0 THEN wrapGap ELSE maxGap0
  IN  FULL_CIRCLE - maxGap

checkSpecificAlignment(s, t, targetIds, toleranceDeg) ==
  IF Len(targetIds) < 2 THEN FALSE
  ELSE LongitudeSpan(s, t, targetIds) <= toleranceDeg

getAlignmentMetric(s, t, type, targetIds) ==
  IF type = "TRANSIT"
  THEN LET degs == {SkyCell(s, t).ang[id] : id \in Range(targetIds)}
       IN  IF \E d \in degs : d > 0
           THEN CHOOSE d \in degs : \A e \in degs : e <= d
           ELSE 0
  ELSE IF Len(targetIds) < 2 THEN 0
  ELSE LongitudeSpan(s, t, targetIds)

(* The `check` closure of calculateEventDuration.  cfg is the search's     *)
(* [type, ids, tolerance, strictMode, solarRadius].                        *)
check(s, cfg, t) ==
  IF cfg.type = "TRANSIT"
  THEN \A id \in Range(cfg.ids) :
         isTransit(s, id, t, cfg.tolerance, cfg.strictMode, cfg.solarRadius)
  ELSE checkSpecificAlignment(s, t, cfg.ids, cfg.tolerance)

(* A plausible fault: the loop tests the day it stands on instead of the   *)
(* next one, so that it steps onto the first day that fails the check.     *)
ExpansionStepsOntoFailure(s, cfg, center, dir) ==
  FirstIndex(LAMBDA j : j > EXPANSION_CAP_DAYS
                        \/ ~check(s, cfg, center + dir * j * DAY),
             0, EXPANSION_CAP_DAYS + 1)

(* A plausible fault: the cap is tested before the step is taken into      *)
(* account, so that the loop takes one more step than the cap allows.      *)
ExpansionStepsLateCap(s, cfg, center, dir) ==
  FirstIndex(LAMBDA j : j > EXPANSION_CAP_DAYS + 1
                        \/ ~check(s, cfg, center + dir * (j + 1) * DAY),
             0, EXPANSION_CAP_DAYS + 2)

(* One expansion loop of calculateEventDuration, dir = -1 for the loop     *)
(* that moves start and +1 for the loop that moves end: the number of      *)
(* one-day steps taken.  After j steps the loop stops when the next day    *)
(* fails the check, or (having just stepped) when j days exceed the cap.   *)
ExpansionSteps(s, cfg, center, dir) ==
  FirstIndex(LAMBDA j : j > EXPANSION_CAP_DAYS
                        \/ ~check(s, cfg, center + dir * (j + 1) * DAY),
             0, EXPANSION_CAP_DAYS + 1)

calculateEventDuration(s, center, cfg) ==
  [start |-> center - ExpansionSteps(s, cfg, center, -1) * DAY,
   end   |-> center + ExpansionSteps(s, cfg, center, 1) * DAY]

----------------------------------------------------------------------------
(* utils/astronomy: optimal time *)

(* The coarse loop, i = 0..steps: acc is [time, angle, probes]; probes is  *)
(* the set of instants at which the metric was evaluated (history only).   *)
RECURSIVE CoarseLoop(_, _, _, _, _, _, _)
(* The body of the coarse loop at sample t, whose metric is `metric`.      *)
CoarseStep(s, start, end, type, ids, i, acc, t, metric) ==
  IF metric < acc.angle
  THEN CoarseLoop(s, start, end, type, ids, i + 1,
         [time |-> t, angle |-> metric, probes |-> acc.probes \cup {t}])
  ELSE CoarseLoop(s, start, end, type, ids, i + 1,
         [acc EXCEPT !.probes = @ \cup {t}])

CoarseProbe(s, start, end, type, ids, i, acc, t) ==
  CoarseStep(s, start, end, type, ids, i, acc, t, getAlignmentMetric(s, t, type, ids))

CoarseLoop(s, start, end, type, ids, i, acc) ==
  IF i > COARSE_STEPS THEN acc
  ELSE CoarseProbe(s, start, end, type, ids, i, acc,
         start + (i * (end - start)) \div COARSE_STEPS)

RECURSIVE TernaryLoop(_, _, _, _, _, _)
(* A plausible fault: the loop returns the better probe of its last turn   *)
(* instead of the best metric seen.                                        *)
TernaryStepLastProbe(s, type, ids, i, b, acc, m1, m2, v1, v2) ==
  IF v1 < v2
  THEN TernaryLoop(s, type, ids, i + 1, [left |-> b.left, right |-> m2],
         [time |-> m1, angle |-> v1, probes |-> acc.probes \cup {m1, m2}])
  ELSE TernaryLoop(s, type, ids, i + 1, [left |-> m1, right |-> b.right],
         [time |-> m2, angle |-> v2, probes |-> acc.probes \cup {m1, m2}])

(* The body of the ternary loop with its two probes m1, m2 evaluated to    *)
(* v1, v2.                                                                 *)
TernaryStep(s, type, ids, i, b, acc, m1, m2, v1, v2) ==
  IF v1 < v2
  THEN IF v1 < acc.angle
       THEN TernaryLoop(s, type, ids, i + 1, [left |-> b.left, right |-> m2],
              [time |-> m1, angle |-> v1, probes |-> acc.probes \cup {m1, m2}])
       ELSE TernaryLoop(s, type, ids, i + 1, [left |-> b.left, right |-> m2],
              [acc EXCEPT !.probes = @ \cup {m1, m2}])
  ELSE IF v2 < acc.angle
       THEN TernaryLoop(s, type, ids, i + 1, [left |-> m1, right |-> b.right],
              [time |-> m2, angle |-> v2, probes |-> acc.probes \cup {m1, m2}])
       ELSE TernaryLoop(s, type, ids, i + 1, [left |-> m1, right |-> b.right],
              [acc EXCEPT !.probes = @ \cup {m1, m2}])

TernaryProbes(s, type, ids, i, b, acc, m1, m2) ==
  TernaryStep(s, type, ids, i, b, acc, m1, m2,
              getAlignmentMetric(s, m1, type, ids), getAlignmentMetric(s, m2, type, ids))

(* The ternary loop: b is [left, right], acc as above.                     *)
TernaryLoop(s, type, ids, i, b, acc) ==
  IF i >= TERNARY_ITERATIONS THEN acc
  ELSE TernaryProbes(s, type, ids, i, b, acc,
         b.left + (b.right - b.left) \div 3, b.right - (b.right - b.left) \div 3)

(* A plausible fault: the bracket of the ternary search is not clamped to  *)
(* the window.                                                             *)
RefineUnclamped(s, start, end, type, ids, coarse) ==
  TernaryLoop(s, type, ids, 0,
    [left  |-> coarse.time - (end - start) \div COARSE_STEPS,
     right |-> coarse.time + (end - start) \div COARSE_STEPS], coarse)

(* The ternary refinement around the coarse best, clamped to the window.   *)
Refine(s, start, end, type, ids, coarse) ==
  TernaryLoop(s, type, ids, 0,
    [left  |-> Max2(start, coarse.time - (end - start) \div COARSE_STEPS),
     right |-> Min2(end, coarse.time + (end - start) \div COARSE_STEPS)], coarse)

findOptimalEventTime(s, start, end, type, ids) ==
  Refine(s, start, end, type, ids,
    CoarseLoop(s, start, end, type, ids, 0,
      [time |-> start, angle |-> INITIAL_MIN_METRIC, probes |-> {}]))

----------------------------------------------------------------------------
(* hooks/useSimulation: state *)

(* A ref or field that holds null is the empty sequence, a value v is <<v>>. *)
Null == <<>>
Some(v) == <<v>>

Types == {"TRANSIT", "PLANETARY_ALIGNMENT"}

SYSTEM_DEFAULTS ==
  [continuousIteration |-> FALSE, allowCalculationSearch |-> FALSE,
   transitTolerance |-> DEFAULT_TOLERANCE, alignmentTolerance |-> 10000,
   strictSolarRadius |-> DEFAULT_SUN_ANGULAR_RADIUS_DEG]

(* useState<SearchState>(...) *)
InitialSearchState ==
  [active |-> FALSE, type |-> "null", targetIds |-> <<>>, speed |-> "medium",
   activeTolerance |-> DEFAULT_TOLERANCE,
   activeSolarRadius |-> DEFAULT_SUN_ANGULAR_RADIUS_DEG,
   isCalculating |-> FALSE, calculationResult |-> Null, elapsedTime |-> 0,
   currentScanDate |-> 0, continuousPaused |-> FALSE, foundEvents |-> <<>>,
   searchStartTime |-> 0, completed |-> FALSE, strictMode |-> FALSE,
   resultStartDate |-> 0, resultEndDate |-> 0]

(* The `${type}-${ids.sort().join(',')}` key of the guard. *)
GuardKey(type, ids) == <<type, SortIds(ids)>>

(* A plausible fault: the scan loops do not consult the guard.             *)
GuardSkipsNever(guard, key, t) == FALSE

(* if (guard && guard.key === currentKey) { if (t >= start && t <= end) continue; } *)
GuardSkips(guard, key, t) ==
  /\ guard # Null
  /\ guard[1].key = key
  /\ t >= guard[1].start
  /\ t <= guard[1].end

(* The body of the scan loops after the guard test: does date t hit? *)
Hit(s, cfg, t) ==
  IF cfg.type = "TRANSIT"
  THEN Len(cfg.ids) > 0
       /\ \A id \in Range(cfg.ids) :
            isTransit(s, id, t, cfg.tolerance, cfg.strictMode, cfg.solarRadius)
  ELSE IF cfg.type = "PLANETARY_ALIGNMENT"
  THEN Len(cfg.ids) >= 2 /\ checkSpecificAlignment(s, t, cfg.ids, cfg.tolerance)
  ELSE FALSE

(* The scan loop of animate and of runCalculationBatch: from `from`, up to *)
(* n steps of `step`; the 1-based index of the step that hit, n + 1 when   *)
(* none did.                                                               *)
ScanLoop(s, cfg, guard, from, step, n) ==
  FirstIndex(LAMBDA i : /\ ~GuardSkips(guard, GuardKey(cfg.type, cfg.ids), from + i * step)
                        /\ Hit(s, cfg, from + i * step),
             1, n)

(* Did the loop evaluate the predicate at all (some step not skipped)?     *)
ScanEvaluated(cfg, guard, from, step, n, stoppedAt) ==
  \E i \in 1..Min2(n, stoppedAt) :
     ~GuardSkips(guard, GuardKey(cfg.type, cfg.ids), from + i * step)

(* Did the loop skip a date because of the guard?                          *)
ScanSkipped(cfg, guard, from, step, n, stoppedAt) ==
  \E i \in 1..Min2(n, stoppedAt) :
     GuardSkips(guard, GuardKey(cfg.type, cfg.ids), from + i * step)

(* FoundEvent.  tolerance, solarRadius and foundAt are history: the values  *)
(* the finder passed to the predicate and the date its scan stopped on     *)
(* (FoundEvent itself does not keep them).                                 *)
NewEvent(cfg, duration, optimal, foundAt) ==
  [type |-> cfg.type, targetIds |-> cfg.ids, startDate |-> duration.start,
   endDate |-> duration.end, optimalDate |-> optimal.time,
   minAngle |-> optimal.angle, strictMode |-> cfg.strictMode,
   tolerance |-> cfg.tolerance, solarRadius |-> cfg.solarRadius,
   foundAt |-> foundAt]

(* updatedEvents.length >= 50 || yearsSearched >= 2000 *)
CapReached(updatedEvents, durationEnd, searchStartTime) ==
  \/ Len(updatedEvents) >= MAX_FOUND_EVENTS
  \/ Abs(durationEnd - searchStartTime) >= MAX_YEARS_SEARCHED * DAYS_PER_YEAR * DAY

----------------------------------------------------------------------------
(* Timers: setTimeout(runCalculationBatch, 0) / clearTimeout               *)
(*                                                                         *)
(* A pending callback is the closure it will run: runCalculationBatch of   *)
(* the render that scheduled it, with that render's                        *)
(* settings.continuousIteration (cont) and timeDirection (dir).            *)
(* calculationTimeoutRef holds the id of the last timer scheduled, so only *)
(* that one (`latest`) can be cleared; timers scheduled before it and not  *)
(* yet fired are in `stray`, a bag of closures.                            *)

Closures == [cont : BOOLEAN, dir : {1, -1}]

NoTimers == [latest |-> Null, stray |-> [c \in Closures |-> 0]]

StrayCount(tm) ==
  LET RECURSIVE Sum(_)
      Sum(S) == IF S = {} THEN 0
                ELSE LET c == CHOOSE x \in S : TRUE IN tm.stray[c] + Sum(S \ {c})
  IN  Sum(Closures)

setTimeout(tm, c) ==
  [latest |-> Some(c),
   stray  |-> IF tm.latest = Null THEN tm.stray
              ELSE [tm.stray EXCEPT ![tm.latest[1]] = @ + 1]]

clearTimeout(tm) == [tm EXCEPT !.latest = Null]

----------------------------------------------------------------------------
(* History kept beside the program state: what the last handler did and    *)
(* which configuration the last start passed.                              *)
(*   stopped  stopCalculation ran and no search was started since          *)
(*   scanned  "tick" / "batch" when the last step evaluated the detection  *)
(*            predicate, else "none"                                       *)
(*   used     the [tolerance, strictMode, solarRadius] that step passed to *)
(*            the predicate, the window expansion and the optimiser        *)
(*   passed   the configuration handed to the last startSearch (.search)   *)
(*            and to the last startCalculation (.calc)                     *)
(*   starts   how many searches were started (at most MaxSearches)         *)
(*   atPause  what the search had accumulated when it was paused, until it *)
(*            is resumed or ended                                          *)
(*   skipped  the last step passed over a date inside the guarded window   *)
(*   cont     settings.continuousIteration when the last search started     *)

Cfg3(cfg) == [tolerance |-> cfg.tolerance, strictMode |-> cfg.strictMode,
              solarRadius |-> IF cfg.type = "TRANSIT" THEN cfg.solarRadius ELSE 0]

NoTrace == [stopped |-> FALSE, scanned |-> "none", used |-> Null,
            passed |-> [search |-> Null, calc |-> Null], starts |-> 0,
            atPause |-> Null, skipped |-> FALSE, cont |-> FALSE,
            kept |-> FALSE]

(* The accumulated state of a continuous search: its statistics, its scan  *)
(* position (currentDate when Searching, calcDateRef when Calculating),    *)
(* its direction, targets and configuration.                               *)
Accumulated(st, date, calcDate, dir, target) ==
  [foundEvents |-> st.foundEvents, elapsedTime |-> st.elapsedTime,
   searchStartTime |-> st.searchStartTime,
   position |-> IF st.isCalculating THEN calcDate ELSE date,
   direction |-> dir, type |-> st.type, targetIds |-> st.targetIds,
   config |-> IF st.isCalculating THEN target
              ELSE Some([tolerance |-> st.activeTolerance, strictMode |-> st.strictMode,
                         solarRadius |-> st.activeSolarRadius])]

Quiet(tr) == [tr EXCEPT !.scanned = "none", !.used = Null, !.skipped = FALSE]

Paused(tr, acc) == [Quiet(tr) EXCEPT !.atPause = Some(acc)]

Resumed(tr) == [Quiet(tr) EXCEPT !.atPause = Null]

Scanned(tr, who, evaluated, skipped, cfg) ==
  IF evaluated
  THEN [tr EXCEPT !.scanned = who, !.used = Some(Cfg3(cfg)), !.skipped = skipped]
  ELSE [Quiet(tr) EXCEPT !.skipped = skipped]

----------------------------------------------------------------------------
(* animate: one frame *)

Iterations(speed) ==
  CASE speed = "low" -> ITERATIONS_LOW
    [] speed = "high" -> ITERATIONS_HIGH
    [] OTHER -> ITERATIONS_MEDIUM

(* A plausible fault: the frame loop reads the tolerance and the solar     *)
(* radius from the live settings instead of the values captured at start.  *)
ActiveConfigFromSettings(st) ==
  [type |-> st.type, ids |-> SortIds(st.targetIds), strictMode |-> st.strictMode,
   tolerance |-> IF st.type = "TRANSIT" THEN settings.transitTolerance
                 ELSE settings.alignmentTolerance,
   solarRadius |-> settings.strictSolarRadius]

(* currentTargets (sorted in place), tolerance and strictRadius of animate. *)
ActiveConfig(st) ==
  [type |-> st.type, ids |-> SortIds(st.targetIds), strictMode |-> st.strictMode,
   tolerance |-> st.activeTolerance,
   solarRadius |-> IF st.activeSolarRadius # 0 THEN st.activeSolarRadius
                   ELSE DEFAULT_SUN_ANGULAR_RADIUS_DEG]

(* handleFound of animate: the event found at tempDate is appended.       *)
AnimateFound(st2, cfg, tempDate, duration, newEvent) ==
  LET updatedEvents == Append(st2.foundEvents, newEvent)
      scanDate == IF timeDirection = 1 THEN duration.end ELSE duration.start
  IN
  /\ lastEventGuardRef' =
       Some([key |-> GuardKey(cfg.type, cfg.ids), start |-> duration.start,
             end |-> duration.end])
  /\ IF settings.continuousIteration
     THEN /\ searchState' =
               IF CapReached(updatedEvents, duration.end, st2.searchStartTime)
               THEN [st2 EXCEPT !.active = FALSE, !.foundEvents = updatedEvents,
                                !.completed = TRUE, !.currentScanDate = scanDate]
               ELSE [st2 EXCEPT !.foundEvents = updatedEvents,
                                !.currentScanDate = scanDate]
          /\ currentDate' = IF timeDirection = 1 THEN duration.end + DAY
                            ELSE duration.start - DAY
          /\ UNCHANGED <<isPlaying, speedMultiplier>>
     ELSE /\ isPlaying' = FALSE
          /\ speedMultiplier' = 8
          /\ searchState' =
               [st2 EXCEPT !.active = FALSE, !.speed = "medium",
                           !.resultStartDate = duration.start,
                           !.resultEndDate = duration.end,
                           !.calculationResult = Some(tempDate),
                           !.foundEvents = updatedEvents]
          /\ currentDate' = tempDate

(* The window and the optimum of the event found at tempDate.              *)
AnimateWindow(st2, cfg, tempDate, duration) ==
  AnimateFound(st2, cfg, tempDate, duration,
    NewEvent(cfg, duration,
      findOptimalEventTime(sky, duration.start, duration.end, cfg.type, cfg.ids),
      tempDate))

(* The outcome of the scan loop: n is the step that hit (iterations + 1    *)
(* when none did).                                                         *)
AnimateScanned(st2, cfg, iterations, n) ==
  /\ trace' = Scanned(trace, "tick",
                ScanEvaluated(cfg, lastEventGuardRef, currentDate, timeDirection * DAY,
                              iterations, n),
                ScanSkipped(cfg, lastEventGuardRef, currentDate, timeDirection * DAY,
                            iterations, n), cfg)
  /\ IF n > iterations
     THEN /\ currentDate' = currentDate + iterations * timeDirection * DAY
          /\ searchState' = st2
          /\ UNCHANGED <<isPlaying, speedMultiplier, lastEventGuardRef>>
     ELSE AnimateWindow(st2, cfg, currentDate + n * timeDirection * DAY,
            calculateEventDuration(sky, currentDate + n * timeDirection * DAY, cfg))

AnimateConfigured(st1, cfg) ==
  AnimateScanned([st1 EXCEPT !.targetIds = cfg.ids], cfg, Iterations(st1.speed),
    ScanLoop(sky, cfg, lastEventGuardRef, currentDate, timeDirection * DAY,
             Iterations(st1.speed)))

(* The search branch of animate (searchState.active && searchState.type,   *)
(* not paused): st1 is searchState after the elapsed-time update.          *)
AnimateSearch(st1) == AnimateConfigured(st1, ActiveConfig(st1))

(* A plausible fault: the frame advances the date whether playing or not.  *)
PlayFrameAlways == TRUE

(* } else if (isPlaying) { *)
PlayFrame == isPlaying

(* daysToAdd * MILLISECONDS_PER_DAY, as new Date(...) keeps it.            *)
PlayAdvance(deltaMs) ==
  (deltaMs * BASE_SPEED_DAYS_PER_SEC * speedMultiplier * timeDirection * DAY)
     \div 8000

(* animate(time): deltaMs is time - lastFrameTime, horizon bounds the      *)
(* dates a run may scan or play from.                                      *)
animate(deltaMs, horizon) ==
  LET st  == searchState
      realDelta == now - lastRealTimeRef
      st1 == IF ~st.isCalculating /\ st.active /\ ~st.continuousPaused
             THEN [st EXCEPT !.elapsedTime = @ + realDelta] ELSE st
  IN
  /\ lastRealTimeRef' = IF st.isCalculating THEN lastRealTimeRef ELSE now
  /\ UNCHANGED <<sky, settings, timeDirection, calcDateRef, calcTargetRef,
                 timers, now, probe>>
  /\ IF st.isCalculating
     THEN /\ trace' = Quiet(trace)
          /\ UNCHANGED <<currentDate, isPlaying, speedMultiplier, searchState,
                         lastEventGuardRef>>
     ELSE IF st.active /\ st.type # "null"
     THEN IF settings.continuousIteration /\ st.continuousPaused
          THEN /\ trace' = Quiet(trace)
               /\ searchState' = st1
               /\ UNCHANGED <<currentDate, isPlaying, speedMultiplier,
                              lastEventGuardRef>>
          ELSE /\ Abs(currentDate) <= horizon * DAY
               /\ AnimateSearch(st1)
     ELSE /\ trace' = Quiet(trace)
          /\ searchState' = st1
          /\ UNCHANGED <<isPlaying, speedMultiplier, lastEventGuardRef>>
          /\ IF PlayFrame
             THEN /\ Abs(currentDate) <= horizon * DAY
                  /\ currentDate' = currentDate + PlayAdvance(deltaMs)
             ELSE UNCHANGED currentDate

----------------------------------------------------------------------------
(* runCalculationBatch: a pending timer fires *)

(* The state updaters queued by a handler run, in order, when the handler  *)
(* has returned; a step of the model is the handler together with that     *)
(* flush.  tm is the timer table with the firing timer already removed, c  *)
(* the closure of the callback.                                            *)

(* The found branch: line 205 reads calcTargetRef before the updater has   *)
(* run, unless the updater was run eagerly inside setSearchState.          *)
BatchFound(tm, c, maxStray, eager, target, st3, currentTs, duration, updatedEvents) ==
  LET cap        == CapReached(updatedEvents, duration.end, st3.searchStartTime)
      reschedule == ~(cap /\ eager)
  IN
  /\ lastEventGuardRef' =
       Some([key |-> GuardKey(target.type, target.ids), start |-> duration.start,
             end |-> duration.end])
  /\ IF c.cont
     THEN /\ searchState' =
               IF cap
               THEN [st3 EXCEPT !.foundEvents = updatedEvents,
                                !.isCalculating = FALSE, !.completed = TRUE]
               ELSE [st3 EXCEPT !.foundEvents = updatedEvents,
                                !.currentScanDate =
                                   IF c.dir = 1 THEN duration.end
                                   ELSE duration.start]
          /\ calcTargetRef' = IF cap THEN Null ELSE Some(target)
          /\ calcDateRef' = IF reschedule
                            THEN (IF c.dir = 1 THEN duration.end + DAY
                                  ELSE duration.start - DAY)
                            ELSE currentTs
          /\ timers' = IF reschedule THEN setTimeout(tm, c) ELSE tm
          /\ reschedule => StrayCount(timers') <= maxStray
     ELSE /\ searchState' =
               [st3 EXCEPT !.isCalculating = FALSE,
                           !.calculationResult = Some(currentTs),
                           !.targetIds = target.ids,
                           !.resultStartDate = duration.start,
                           !.resultEndDate = duration.end,
                           !.foundEvents = updatedEvents]
          /\ calcTargetRef' = Null
          /\ calcDateRef' = currentTs
          /\ timers' = tm

(* The window and the optimum of the event found at currentTs; target is   *)
(* calcTargetRef.current with its ids sorted.                              *)
BatchWindow(tm, c, maxStray, eager, target, cfg, st3, currentTs, duration) ==
  BatchFound(tm, c, maxStray, eager, target, st3, currentTs, duration,
    Append(st3.foundEvents,
      NewEvent(cfg, duration,
        findOptimalEventTime(sky, duration.start, duration.end, cfg.type, cfg.ids),
        currentTs)))

(* A plausible fault: a batch that found nothing schedules no successor.   *)
ReschedulesNever(prev) == FALSE

(* if (prev.continuousPaused || !prev.isCalculating) return prev;          *)
Reschedules(prev) == ~(prev.continuousPaused \/ ~prev.isCalculating)

(* The outcome of the batch loop: n is the step that hit (BATCH_SIZE + 1   *)
(* when none did), st3 searchState after the updaters of the loop.         *)
BatchScanned(tm, c, maxStray, eager, target, cfg, st3, n) ==
  /\ lastRealTimeRef' = now
  /\ trace' = Scanned(trace, "batch",
                ScanEvaluated(cfg, lastEventGuardRef, calcDateRef, c.dir * DAY,
                              BATCH_SIZE, n),
                ScanSkipped(cfg, lastEventGuardRef, calcDateRef, c.dir * DAY,
                            BATCH_SIZE, n), cfg)
  /\ IF n <= BATCH_SIZE
     THEN BatchWindow(tm, c, maxStray, eager, target, cfg, st3,
            calcDateRef + n * c.dir * DAY,
            calculateEventDuration(sky, calcDateRef + n * c.dir * DAY, cfg))
     ELSE /\ searchState' = st3
          /\ calcTargetRef' = Some(target)
          /\ calcDateRef' = calcDateRef + BATCH_SIZE * c.dir * DAY
          /\ timers' = IF Reschedules(st3) THEN setTimeout(tm, c) ELSE tm
          /\ StrayCount(timers') <= maxStray
          /\ UNCHANGED lastEventGuardRef

(* searchState after the two updaters of the loop (elapsedTime and         *)
(* currentScanDate, both no-ops while paused); ids.sort() sorts the array  *)
(* that searchState.targetIds also refers to.                              *)
BatchState(st0, ids, sorted, currentTs) ==
  LET st2 == IF st0.continuousPaused THEN st0
             ELSE [st0 EXCEPT !.elapsedTime = @ + (now - lastRealTimeRef),
                              !.currentScanDate = currentTs]
  IN  IF st2.targetIds = ids THEN [st2 EXCEPT !.targetIds = sorted] ELSE st2

BatchConfigured(tm, c, maxStray, eager, target, cfg, n) ==
  BatchScanned(tm, c, maxStray, eager, [target EXCEPT !.ids = cfg.ids], cfg,
    BatchState(searchState, target.ids, cfg.ids,
               calcDateRef + Min2(n, BATCH_SIZE) * c.dir * DAY), n)

BatchTarget(tm, c, maxStray, eager, target, cfg) ==
  BatchConfigured(tm, c, maxStray, eager, target, cfg,
    ScanLoop(sky, cfg, lastEventGuardRef, calcDateRef, c.dir * DAY, BATCH_SIZE))

TargetConfig(target) ==
  [type |-> target.type, ids |-> SortIds(target.ids), strictMode |-> target.strictMode,
   tolerance |-> target.tolerance, solarRadius |-> target.solarRadius]

BatchBody(tm, c, maxStray, eager) ==
  BatchTarget(tm, c, maxStray, eager, calcTargetRef[1], TargetConfig(calcTargetRef[1]))

(* fromLatest: the timer that fires is the one calculationTimeoutRef names *)
(* (otherwise a stray one with closure c).                                 *)
runCalculationBatch(fromLatest, c, horizon, maxStray) ==
  LET tm == IF fromLatest THEN [timers EXCEPT !.latest = Null]
            ELSE [timers EXCEPT !.stray[c] = @ - 1]
  IN
  /\ IF fromLatest THEN timers.latest = Some(c) ELSE timers.stray[c] > 0
  /\ UNCHANGED <<sky, settings, currentDate, isPlaying, timeDirection, now,
                 speedMultiplier, probe>>
  /\ IF calcTargetRef = Null
     THEN /\ timers' = tm
          /\ trace' = Quiet(trace)
          /\ UNCHANGED <<searchState, lastEventGuardRef, calcDateRef,
                         calcTargetRef, lastRealTimeRef>>
     ELSE /\ Abs(calcDateRef) <= horizon * DAY
          /\ \E eager \in BOOLEAN :
               /\ eager => searchState.continuousPaused
               /\ BatchBody(tm, c, maxStray, eager)

----------------------------------------------------------------------------
(* startSearch / startCalculation / stopCalculation / resetSearchForm *)

(* startTs is currentDate.getTime() of the render the caller ran in;       *)
(* newDate is currentDate after the caller's own setCurrentDate, if any.   *)
startCalculation(type, ids, strict, config, keepHistory, newDate, maxStray) ==
  LET startTs == currentDate
      prev    == searchState
  IN
  /\ isPlaying' = FALSE
  /\ lastEventGuardRef' = Null
  /\ calcDateRef' = startTs
  /\ calcTargetRef' = Some([type |-> type, ids |-> ids, strictMode |-> strict,
                            tolerance |-> config.tolerance,
                            solarRadius |-> config.solarRadius])
  /\ lastRealTimeRef' = now
  /\ searchState' =
       [active |-> FALSE, type |-> type, targetIds |-> ids, speed |-> "medium",
        activeTolerance |-> config.tolerance,
        activeSolarRadius |-> config.solarRadius,
        isCalculating |-> TRUE, calculationResult |-> Null,
        elapsedTime |-> IF keepHistory THEN prev.elapsedTime ELSE 0,
        currentScanDate |-> startTs, continuousPaused |-> FALSE,
        foundEvents |-> IF keepHistory THEN prev.foundEvents ELSE <<>>,
        searchStartTime |-> IF keepHistory THEN prev.searchStartTime ELSE startTs,
        completed |-> FALSE, strictMode |-> strict,
        resultStartDate |-> 0, resultEndDate |-> 0]
  /\ timers' = setTimeout(timers, [cont |-> settings.continuousIteration,
                                   dir |-> timeDirection])
  /\ StrayCount(timers') <= maxStray
  /\ currentDate' = newDate
  /\ trace.starts < MaxSearches
  /\ trace' = [stopped |-> FALSE, scanned |-> "none", used |-> Null,
               starts |-> trace.starts + 1, atPause |-> Null, skipped |-> FALSE,
               cont |-> settings.continuousIteration,
               kept |-> keepHistory,
               passed |-> [trace.passed EXCEPT
                            !.calc = Some(Cfg3([type |-> type, strictMode |-> strict,
                                                tolerance |-> config.tolerance,
                                                solarRadius |-> config.solarRadius]))]]
  /\ UNCHANGED <<sky, settings, timeDirection, now, speedMultiplier, probe>>

startSearch(type, ids, speed, strict, config, keepHistory, newDate, maxStray) ==
  IF settings.allowCalculationSearch
  THEN startCalculation(type, ids, strict, config, keepHistory, newDate, maxStray)
  ELSE
  LET startTs == currentDate
      prev    == searchState
  IN
  /\ lastEventGuardRef' = Null
  /\ lastRealTimeRef' = now
  /\ searchState' =
       [active |-> TRUE, type |-> type, targetIds |-> ids, speed |-> speed,
        activeTolerance |-> config.tolerance,
        activeSolarRadius |-> config.solarRadius,
        isCalculating |-> FALSE, calculationResult |-> Null,
        elapsedTime |-> IF keepHistory THEN prev.elapsedTime ELSE 0,
        currentScanDate |-> startTs, continuousPaused |-> FALSE,
        foundEvents |-> IF keepHistory THEN prev.foundEvents ELSE <<>>,
        searchStartTime |-> IF keepHistory THEN prev.searchStartTime ELSE startTs,
        completed |-> FALSE, strictMode |-> strict,
        resultStartDate |-> 0, resultEndDate |-> 0]
  /\ isPlaying' = FALSE
  /\ currentDate' = newDate
  /\ trace.starts < MaxSearches
  /\ trace' = [stopped |-> FALSE, scanned |-> "none", used |-> Null,
               starts |-> trace.starts + 1, atPause |-> Null, skipped |-> FALSE,
               cont |-> settings.continuousIteration,
               kept |-> keepHistory,
               passed |-> [trace.passed EXCEPT
                            !.search = Some(Cfg3([type |-> type, strictMode |-> strict,
                                                  tolerance |-> config.tolerance,
                                                  solarRadius |-> config.solarRadius]))]]
  /\ UNCHANGED <<sky, settings, timeDirection, calcDateRef, calcTargetRef, timers,
                 now, speedMultiplier, probe>>

(* A plausible fault: Stop ends the calculation only and leaves a frame    *)
(* search active.                                                          *)
stopCalculationOnly ==
  /\ timers' = clearTimeout(timers)
  /\ calcTargetRef' = Null
  /\ searchState' = [searchState EXCEPT !.isCalculating = FALSE]
  /\ trace' = [Resumed(trace) EXCEPT !.stopped = TRUE]
  /\ UNCHANGED <<sky, settings, currentDate, isPlaying, timeDirection,
                 lastEventGuardRef, calcDateRef, now, lastRealTimeRef,
                 speedMultiplier, probe>>

stopCalculation ==
  /\ timers' = clearTimeout(timers)
  /\ calcTargetRef' = Null
  /\ searchState' = [searchState EXCEPT !.isCalculating = FALSE, !.active = FALSE]
  /\ trace' = [Resumed(trace) EXCEPT !.stopped = TRUE]
  /\ UNCHANGED <<sky, settings, currentDate, isPlaying, timeDirection,
                 lastEventGuardRef, calcDateRef, now, lastRealTimeRef,
                 speedMultiplier, probe>>

(* The state part of resetSearchForm, shared with onResetTime.             *)
ResetForm(st) ==
  [st EXCEPT !.active = FALSE, !.type = "null", !.isCalculating = FALSE,
             !.calculationResult = Null, !.continuousPaused = FALSE,
             !.completed = FALSE, !.elapsedTime = 0, !.foundEvents = <<>>,
             !.searchStartTime = 0, !.currentScanDate = 0, !.strictMode = FALSE]

resetSearchForm ==
  /\ searchState' = ResetForm(searchState)
  /\ lastEventGuardRef' = Null
  /\ trace' = Resumed(trace)
  /\ UNCHANGED <<sky, settings, currentDate, isPlaying, timeDirection, calcDateRef,
                 calcTargetRef, timers, now, lastRealTimeRef, speedMultiplier, probe>>

----------------------------------------------------------------------------
(* components/EventsPanel: which view is shown *)

ViewActive == searchState.active
ViewCalculating == ~searchState.active /\ searchState.isCalculating
ViewResult ==
  /\ ~searchState.active /\ ~searchState.isCalculating
  /\ searchState.calculationResult # Null /\ ~settings.continuousIteration
ViewIterationDone ==
  /\ ~searchState.active /\ ~searchState.isCalculating /\ ~ViewResult
  /\ settings.continuousIteration
  /\ (Len(searchState.foundEvents) > 0 \/ searchState.completed)
ViewForm ==
  /\ ~searchState.active /\ ~searchState.isCalculating
  /\ ~ViewResult /\ ~ViewIterationDone

searchActive == searchState.active \/ searchState.isCalculating

PauseShown ==
  /\ settings.continuousIteration /\ ~searchState.continuousPaused
  /\ (ViewActive \/ ViewCalculating)
ContinueShown ==
  /\ searchState.continuousPaused
  /\ ((ViewActive /\ settings.continuousIteration) \/ ViewCalculating)
StopShown ==
  /\ ~settings.continuousIteration
  /\ (ViewActive \/ (ViewCalculating /\ ~searchState.continuousPaused))

(* The timer a handler of the current render schedules.                    *)
CurrentClosure == [cont |-> settings.continuousIteration, dir |-> timeDirection]

Frame == <<sky, settings, currentDate, isPlaying, timeDirection, lastEventGuardRef,
           calcDateRef, calcTargetRef, now, lastRealTimeRef, speedMultiplier, probe>>

----------------------------------------------------------------------------
(* App / EventsPanel handlers *)

(* handleStartTransit / handleStartAlignment: req is the form's selection. *)
handleStart(req, speed, maxStray) ==
  /\ ViewForm
  /\ IF req.type = "TRANSIT" THEN Len(req.ids) >= 1 ELSE Len(req.ids) >= 2
  /\ LET config == IF req.type = "TRANSIT"
                   THEN [tolerance |-> settings.transitTolerance,
                         solarRadius |-> settings.strictSolarRadius]
                   ELSE [tolerance |-> settings.alignmentTolerance, solarRadius |-> 0]
         strict == IF req.type = "TRANSIT" THEN req.strict ELSE FALSE
     IN  IF settings.allowCalculationSearch
         THEN startCalculation(req.type, req.ids, strict, config, FALSE,
                               currentDate, maxStray)
         ELSE startSearch(req.type, req.ids, speed, strict, config, FALSE,
                          currentDate, maxStray)

onCancel ==
  /\ StopShown
  /\ stopCalculation

onPauseContinuous ==
  /\ PauseShown
  /\ searchState' = [searchState EXCEPT !.continuousPaused = TRUE]
  /\ trace' = Paused(trace, Accumulated(searchState, currentDate, calcDateRef,
                                        timeDirection, calcTargetRef))
  /\ UNCHANGED <<timers, Frame>>

onContinueContinuous(maxStray) ==
  /\ ContinueShown
  /\ searchState' = [searchState EXCEPT !.continuousPaused = FALSE]
  /\ timers' = setTimeout(timers, CurrentClosure)
  /\ StrayCount(timers') <= maxStray
  /\ trace' = Resumed(trace)
  /\ UNCHANGED Frame

onEndContinuous ==
  /\ ContinueShown
  /\ timers' = clearTimeout(timers)
  /\ searchState' = [searchState EXCEPT !.isCalculating = FALSE, !.active = FALSE,
                                        !.completed = TRUE]
  /\ trace' = Resumed(trace)
  /\ UNCHANGED Frame

onSpeedChange(speed) ==
  /\ ViewActive /\ ~settings.continuousIteration
  /\ searchState' = [searchState EXCEPT !.speed = speed]
  /\ trace' = Quiet(trace)
  /\ UNCHANGED <<timers, Frame>>

onComplete ==
  /\ ViewResult \/ ViewIterationDone
  /\ resetSearchForm

ResultConfig ==
  [tolerance   |-> searchState.activeTolerance,
   solarRadius |-> IF searchState.activeSolarRadius # 0
                   THEN searchState.activeSolarRadius
                   ELSE DEFAULT_SUN_ANGULAR_RADIUS_DEG]

handleSearchNext(maxStray) ==
  /\ ViewResult
  /\ searchState.type # "null"
  /\ LET st == searchState
         OrCurrent(d) == IF d # 0 THEN d ELSE currentDate
         nextStartTime == IF timeDirection = 1
                          THEN OrCurrent(st.resultEndDate) + DAY
                          ELSE OrCurrent(st.resultStartDate) - DAY
     IN  IF settings.allowCalculationSearch
         THEN startCalculation(st.type, st.targetIds, st.strictMode, ResultConfig,
                               TRUE, nextStartTime, maxStray)
         ELSE startSearch(st.type, st.targetIds, st.speed, st.strictMode,
                          ResultConfig, TRUE, nextStartTime, maxStray)

handleRestartSearch(maxStray) ==
  /\ ViewIterationDone
  /\ searchState.type # "null"
  /\ startSearch(searchState.type, searchState.targetIds, searchState.speed,
                 searchState.strictMode, ResultConfig, FALSE, currentDate, maxStray)

(* handleKeyDown, e.code === 'Space' *)
handleKeyDown(maxStray) ==
  IF settings.continuousIteration /\ searchActive
  THEN /\ UNCHANGED Frame
       /\ IF searchState.continuousPaused
          THEN /\ searchState' = [searchState EXCEPT !.continuousPaused = FALSE]
               /\ timers' = setTimeout(timers, CurrentClosure)
               /\ StrayCount(timers') <= maxStray
               /\ trace' = Resumed(trace)
          ELSE /\ searchState' = [searchState EXCEPT !.continuousPaused = TRUE]
               /\ timers' = clearTimeout(timers)
               /\ trace' = Paused(trace, Accumulated(searchState, currentDate,
                                        calcDateRef, timeDirection, calcTargetRef))
  ELSE IF searchState.active
  THEN /\ searchState' = [searchState EXCEPT !.active = FALSE]
       /\ trace' = Resumed(trace)
       /\ UNCHANGED <<timers, Frame>>
  ELSE IF searchState.isCalculating
  THEN stopCalculation
  ELSE /\ isPlaying' = ~isPlaying
       /\ trace' = Quiet(trace)
       /\ UNCHANGED <<sky, settings, currentDate, timeDirection, searchState,
                      lastEventGuardRef, calcDateRef, calcTargetRef, timers, now,
                      lastRealTimeRef, speedMultiplier, probe>>

----------------------------------------------------------------------------
(* Controls and the settings panel *)

(* new Date() of onResetTime and of the initial currentDate.               *)
Today == 0

onTogglePlay ==
  /\ ~searchActive
  /\ isPlaying' = ~isPlaying
  /\ trace' = Quiet(trace)
  /\ UNCHANGED <<sky, settings, currentDate, timeDirection, searchState,
                 lastEventGuardRef, calcDateRef, calcTargetRef, timers, now,
                 lastRealTimeRef, speedMultiplier, probe>>

(* onSpeedChange of Controls: factor 0.5 (half = TRUE) or 2, clamped to    *)
(* 0.125 .. 64.                                                            *)
onPlaySpeedChange(half) ==
  /\ ~searchActive
  /\ speedMultiplier' =
       IF half THEN (IF speedMultiplier <= 1 THEN speedMultiplier
                     ELSE speedMultiplier \div 2)
       ELSE (IF speedMultiplier >= 512 THEN speedMultiplier
             ELSE speedMultiplier * 2)
  /\ trace' = Quiet(trace)
  /\ UNCHANGED <<sky, settings, currentDate, isPlaying, timeDirection, searchState,
                 lastEventGuardRef, calcDateRef, calcTargetRef, timers, now,
                 lastRealTimeRef, probe>>

onToggleTimeDirection ==
  /\ ~searchActive
  /\ timeDirection' = -timeDirection
  /\ trace' = Quiet(trace)
  /\ UNCHANGED <<sky, settings, currentDate, isPlaying, searchState,
                 lastEventGuardRef, calcDateRef, calcTargetRef, timers, now,
                 lastRealTimeRef, speedMultiplier, probe>>

onResetTime ==
  /\ currentDate' = Today
  /\ speedMultiplier' = 8
  /\ timeDirection' = 1
  /\ isPlaying' = FALSE
  /\ searchState' = ResetForm(searchState)
  /\ lastEventGuardRef' = Null
  /\ trace' = Resumed(trace)
  /\ UNCHANGED <<sky, settings, calcDateRef, calcTargetRef, timers, now,
                 lastRealTimeRef, probe>>

(* The toggles of the settings panel act only when no search is active.    *)
onSettingsToggle(field) ==
  /\ ~searchActive
  /\ settings' = [settings EXCEPT ![field] = ~@]
  /\ trace' = Quiet(trace)
  /\ UNCHANGED <<sky, currentDate, isPlaying, timeDirection, searchState,
                 lastEventGuardRef, calcDateRef, calcTargetRef, timers, now,
                 lastRealTimeRef, speedMultiplier, probe>>

(* The three sliders of the search form: handle*ToleranceChange and        *)
(* handleSolarRadiusChange return when searchState.active.                 *)
onToleranceChange(field, value) ==
  /\ ViewForm
  /\ ~searchState.active
  /\ settings[field] # value
  /\ settings' = [settings EXCEPT ![field] = value]
  /\ trace' = Quiet(trace)
  /\ UNCHANGED <<sky, currentDate, isPlaying, timeDirection, searchState,
                 lastEventGuardRef, calcDateRef, calcTargetRef, timers, now,
                 lastRealTimeRef, speedMultiplier, probe>>

handleRestoreDefaults ==
  /\ settings # SYSTEM_DEFAULTS
  /\ settings' = SYSTEM_DEFAULTS
  /\ trace' = Quiet(trace)
  /\ UNCHANGED <<sky, currentDate, isPlaying, timeDirection, searchState,
                 lastEventGuardRef, calcDateRef, calcTargetRef, timers, now,
                 lastRealTimeRef, speedMultiplier, probe>>

(* The wall clock advances. *)
Tock(maxNow) ==
  /\ now < maxNow
  /\ now' = now + 1
  /\ UNCHANGED <<sky, settings, currentDate, isPlaying, timeDirection, searchState,
                 lastEventGuardRef, calcDateRef, calcTargetRef, timers,
                 lastRealTimeRef, speedMultiplier, trace, probe>>

----------------------------------------------------------------------------
(* The interactive specification: every handler, any interleaving *)

Horizon == 6
MaxStray == 1
MaxNow == 1
MaxFound == 3

(* Mercury (and the Mars-Jupiter pair) through the day's slots.  Far is a  *)
(* slot where Mercury is beyond the Sun.                                   *)
Near(ang, span) == Cell(ang, 1, 90000, 5, 0, span)
Far(ang, span)  == Cell(ang, 5, 90000, 5, 0, span)
OffCell == Far(50, 180000)

(* Two events of two days in every ten: in the first the smallest angle is *)
(* reached in the middle of day one, with Mercury beyond the Sun; in the   *)
(* second it is reached at the start of the window.                        *)
DenseSky ==
  [period |-> 10,
   head   |-> << <<Near(400, 4000), Far(300, 2000), Near(450, 5000)>>,
                 <<Near(800, 8000)>>,
                 <<OffCell>>, <<OffCell>>, <<OffCell>>,
                 <<Near(400, 4000), Near(450, 5000), Near(450, 5000)>>,
                 <<Near(800, 8000)>> >>,
   run    |-> 0, sub |-> <<OffCell>>, off |-> OffCell]

Skies == {DenseSky}

SavedTransitTolerance == 500

(* getInitialSettings: the saved user settings, else SYSTEM_DEFAULTS.      *)
InitialSettings ==
  {[SYSTEM_DEFAULTS EXCEPT !.continuousIteration = c, !.allowCalculationSearch = a,
                           !.transitTolerance = SavedTransitTolerance] :
     c \in BOOLEAN, a \in BOOLEAN}

(* The selections the search form can submit. *)
Requests ==
  {[type |-> "TRANSIT", ids |-> <<"mercury">>, strict |-> FALSE],
   [type |-> "TRANSIT", ids |-> <<"mercury">>, strict |-> TRUE],
   [type |-> "PLANETARY_ALIGNMENT", ids |-> <<"mars", "jupiter">>, strict |-> FALSE]}

Speeds == {"low"}
FrameDeltas == {1000}

NoProbe == [fn |-> "none"]

SchedulerInit ==
  /\ currentDate = Today
  /\ isPlaying = FALSE
  /\ timeDirection = 1
  /\ speedMultiplier = 8
  /\ searchState = [InitialSearchState EXCEPT !.currentScanDate = Today]
  /\ lastEventGuardRef = Null
  /\ calcDateRef = 0
  /\ calcTargetRef = Null
  /\ timers = NoTimers
  /\ now = 0
  /\ lastRealTimeRef = 0
  /\ trace = NoTrace

Init ==
  /\ sky \in Skies
  /\ settings \in InitialSettings
  /\ SchedulerInit
  /\ probe = NoProbe

Tick == /\ Len(searchState.foundEvents) < MaxFound
        /\ \E dt \in FrameDeltas : animate(dt, Horizon)
Batch == /\ Len(searchState.foundEvents) < MaxFound
         /\ \E fromLatest \in BOOLEAN, c \in Closures :
               runCalculationBatch(fromLatest, c, Horizon, MaxStray)
Start == \E req \in Requests, speed \in Speeds : handleStart(req, speed, MaxStray)
Stop == onCancel
Pause == onPauseContinuous
Continue == onContinueContinuous(MaxStray)
End == onEndContinuous
Complete == onComplete
SearchNext == handleSearchNext(MaxStray)
Restart == handleRestartSearch(MaxStray)
Space == searchActive /\ handleKeyDown(MaxStray)
(* The direction is chosen before the first search of a run. *)
ToggleDirection == trace.starts = 0 /\ onToggleTimeDirection
ResetTime == onResetTime
RestoreDefaults == handleRestoreDefaults
Clock == searchActive /\ Tock(MaxNow)

Next ==
  \/ Tick \/ Batch \/ Start \/ Stop \/ Pause \/ Continue \/ End
  \/ Complete \/ SearchNext \/ Restart \/ Space \/ ToggleDirection \/ ResetTime
  \/ RestoreDefaults \/ Clock

Spec == Init /\ [][Next]_vars

----------------------------------------------------------------------------
(* Claims about the scheduler *)

Running == searchState.active \/ searchState.isCalculating
FoundEvents == searchState.foundEvents

(* C1: a stopCalculation step (Stop button, or Space while Calculating)    *)
(* leaves the search Idle with foundEvents as it was; from then on, until  *)
(* a search is started, no frame tick and no calculation batch - the       *)
(* batches scheduled before the Stop included - evaluates the detection    *)
(* predicate or appends an event.                                          *)
C1_StopIsFinal ==
  [][ /\ (~trace.stopped /\ trace'.stopped) =>
           /\ ~searchState'.active /\ ~searchState'.isCalculating
           /\ searchState'.foundEvents = searchState.foundEvents
      /\ (trace.stopped /\ (Tick \/ Batch)) =>
           /\ trace'.scanned = "none"
           /\ searchState'.foundEvents = searchState.foundEvents
           /\ ~searchState'.active /\ ~searchState'.isCalculating ]_vars

(* A Stop has been issued on a search that had found events, and a batch   *)
(* scheduled before it is still pending.                                   *)
C1_Witness ==
  /\ trace.stopped
  /\ StrayCount(timers) > 0
  /\ Len(FoundEvents) > 0

(* C4: every event in foundEvents has startDate <= optimalDate <= endDate. *)
C4_OptimalInsideWindow ==
  \A i \in 1..Len(FoundEvents) :
     /\ FoundEvents[i].startDate <= FoundEvents[i].optimalDate
     /\ FoundEvents[i].optimalDate <= FoundEvents[i].endDate

(* Two events found, one of them with its optimal instant strictly inside  *)
(* its window and off the window's one-day grid.                           *)
C4_Witness ==
  /\ Len(FoundEvents) >= 2
  /\ \E i \in 1..Len(FoundEvents) :
        /\ FoundEvents[i].startDate < FoundEvents[i].optimalDate
        /\ FoundEvents[i].optimalDate < FoundEvents[i].endDate
        /\ FoundEvents[i].optimalDate % DAY # FoundEvents[i].startDate % DAY

(* The configuration an event was found with. *)
EventConfig(e) ==
  [type |-> e.type, ids |-> e.targetIds, strictMode |-> e.strictMode,
   tolerance |-> e.tolerance, solarRadius |-> e.solarRadius]

(* C5: the detection predicate that found an event holds at the event's    *)
(* optimalDate.                                                            *)
C5_PredicateAtOptimal ==
  \A i \in 1..Len(FoundEvents) :
     check(sky, EventConfig(FoundEvents[i]), FoundEvents[i].optimalDate)

(* C6: every scan uses the tolerance, strict flag and solar radius passed  *)
(* when its search was started (a tick those of startSearch, a batch those *)
(* of startCalculation), whatever the settings have become since; and a    *)
(* change of the settings changes nothing of the search.                   *)
C6_ConfigCapturedAtStart ==
  [][ /\ (trace'.scanned = "tick")  => (trace'.used = trace'.passed.search)
      /\ (trace'.scanned = "batch") => (trace'.used = trace'.passed.calc)
      /\ (settings' # settings) =>
           UNCHANGED <<searchState, calcTargetRef, calcDateRef, lastEventGuardRef,
                       timers, currentDate>> ]_vars

(* A scan of a transit search whose tolerance differs from the one in the  *)
(* settings now: the settings were changed while it was in flight.         *)
C6_Witness ==
  /\ trace.scanned # "none"
  /\ searchState.type = "TRANSIT"
  /\ trace.used[1].tolerance # settings.transitTolerance
  /\ Len(FoundEvents) > 0

(* C2 (as claimed): the append that reaches a cap completes and ends the   *)
(* search in the same step, foundEvents never holds more than 50 events,   *)
(* and while completed stays true (no new search, no reset) no event is    *)
(* appended.                                                               *)
C2_CapsComplete ==
  [][ /\ Len(searchState'.foundEvents) <= MAX_FOUND_EVENTS
      /\ ( /\ Len(searchState'.foundEvents) = Len(FoundEvents) + 1
           /\ ~searchState.completed
           /\ CapReached(searchState'.foundEvents,
                         searchState'.foundEvents[Len(searchState'.foundEvents)].endDate,
                         searchState'.searchStartTime) )
         => ( /\ searchState'.completed
              /\ ~searchState'.active /\ ~searchState'.isCalculating )
      /\ (searchState.completed /\ searchState'.completed)
         => searchState'.foundEvents = FoundEvents ]_vars

(* C7 (as claimed): the step that resumes a paused continuous search       *)
(* leaves it with the foundEvents, elapsedTime, searchStartTime, scan      *)
(* position, direction, targets and configuration it had when paused.      *)
C7_ResumeKeepsAccumulated ==
  [][ ( /\ trace.atPause # Null
        /\ searchState.continuousPaused /\ ~searchState'.continuousPaused
        /\ searchState'.active \/ searchState'.isCalculating )
      => Accumulated(searchState', currentDate', calcDateRef', timeDirection',
                     calcTargetRef') = trace.atPause[1] ]_vars

(* The timers scheduled and not yet fired or cleared.                      *)
PendingCount(tm) == (IF tm.latest = Null THEN 0 ELSE 1) + StrayCount(tm)

(* C16: while isCalculating, no frame and no batch changes currentDate; a  *)
(* batch moves calcDateRef only, and a batch of a search neither stopped   *)
(* nor paused that found no event schedules exactly one batch in its       *)
(* place.                                                                  *)
C16_BatchesLeaveDateAlone ==
  [][ searchState.isCalculating =>
        /\ (Tick \/ Batch) => currentDate' = currentDate
        /\ ( /\ Batch
             /\ calcTargetRef # Null
             /\ ~searchState.continuousPaused
             /\ searchState'.foundEvents = FoundEvents )
           => /\ PendingCount(timers') = PendingCount(timers)
              /\ timers'.latest # Null
              /\ calcDateRef' # calcDateRef
              /\ searchState'.isCalculating ]_vars

(* A batch has scanned BATCH_SIZE days without a find and the next one is  *)
(* pending; the date shown is the one the search was started on.           *)
C16_Witness ==
  /\ searchState.isCalculating
  /\ trace.scanned = "batch"
  /\ Abs(calcDateRef - searchState.searchStartTime) = BATCH_SIZE * DAY
  /\ timers.latest # Null
  /\ FoundEvents = <<>>
  /\ currentDate = searchState.searchStartTime

(* The event a step has appended, if it appended one.                      *)
Appended == Len(searchState'.foundEvents) = Len(FoundEvents) + 1
Newest == searchState'.foundEvents[Len(searchState'.foundEvents)]

InGuard(guard, e) ==
  /\ guard # Null
  /\ guard[1].key = GuardKey(e.type, e.targetIds)
  /\ guard[1].start <= e.foundAt
  /\ e.foundAt <= guard[1].end

(* C24: with a guard recorded, a scan of a search with the guard's key     *)
(* reports no date of the guarded window as a hit: the event a step        *)
(* appends was found outside the window guarded before the step, and is    *)
(* not the guarded event again; every start of a search clears the guard.  *)
C24_GuardedWindowNotReentered ==
  [][ /\ Appended =>
           /\ ~InGuard(lastEventGuardRef, Newest)
           /\ ( /\ lastEventGuardRef # Null
                /\ lastEventGuardRef[1].key = GuardKey(Newest.type, Newest.targetIds) )
              => <<Newest.startDate, Newest.endDate>> #
                   <<lastEventGuardRef[1].start, lastEventGuardRef[1].end>>
      /\ (trace'.starts # trace.starts) => (lastEventGuardRef' = Null) ]_vars

(* A scan has passed over dates of the guarded window and evaluated the    *)
(* predicate on others.                                                    *)
C24_Witness ==
  /\ trace.skipped
  /\ trace.scanned # "none"
  /\ lastEventGuardRef # Null

(* The date past the window of event e in direction dir.                   *)
PastWindow(e, dir) == IF dir = 1 THEN e.endDate + DAY ELSE e.startDate - DAY

(* C25 (as claimed): a find of a running search that reaches no cap leaves *)
(* a continuous search running, not completed, with its scan position one  *)
(* day past the found window in the scan direction; it ends a search that  *)
(* is not continuous, with the one event appended.                         *)
C25_FindContinuesPastWindow ==
  [][ ( /\ Appended /\ Running /\ ~searchState.completed
        /\ settings.continuousIteration = trace.cont ) =>
        IF settings.continuousIteration
        THEN ~CapReached(searchState'.foundEvents, Newest.endDate,
                         searchState'.searchStartTime)
             => /\ searchState'.active \/ searchState'.isCalculating
                /\ ~searchState'.completed
                /\ (IF searchState'.isCalculating THEN calcDateRef' ELSE currentDate')
                     = PastWindow(Newest, timeDirection)
        ELSE /\ ~searchState'.active /\ ~searchState'.isCalculating
             /\ SubSeq(searchState'.foundEvents, 1, Len(FoundEvents)) = FoundEvents ]_vars

(* C26 (as claimed): at most one runCalculationBatch timer is pending, so  *)
(* that at most one chain of batches is alive.                             *)
C26_SingleBatchChain == PendingCount(timers) <= 1

(* C27 (as claimed): while a search stays paused, no step changes          *)
(* foundEvents or the scan position, and no frame and no batch evaluates   *)
(* the detection predicate.                                                *)
C27_PausedSearchStandsStill ==
  [][ (searchState.continuousPaused /\ searchState'.continuousPaused) =>
        /\ searchState'.foundEvents = FoundEvents
        /\ calcDateRef' = calcDateRef
        /\ currentDate' = currentDate
        /\ trace'.scanned = "none" ]_vars

(* A step of handleSearchNext: a search begins from the result view and   *)
(* keeps the history.                                                      *)
SearchNextStep ==
  /\ ViewResult /\ Len(FoundEvents) > 0
  /\ trace'.starts = trace.starts + 1
  /\ searchState'.foundEvents = FoundEvents

Beyond(previous, next, dir) ==
  IF dir = 1 THEN next.startDate > previous.endDate
  ELSE next.endDate < previous.startDate

(* C29 (as claimed): Search Next after a non-continuous find with window   *)
(* [s, e] starts a search whose scan position is one day past the window   *)
(* in the scan direction, in Searching and in Calculating mode alike; and  *)
(* the next event appended to the kept history lies strictly beyond the    *)
(* previous window and is not the previous event again.                    *)
C29_SearchNextBeginsPastWindow ==
  [][ /\ SearchNextStep =>
           (IF searchState'.isCalculating THEN calcDateRef' ELSE currentDate')
             = PastWindow(FoundEvents[Len(FoundEvents)], timeDirection)
      /\ ( /\ Appended /\ Len(FoundEvents) > 0 /\ trace.kept
           /\ ~settings.continuousIteration /\ ~trace.cont ) =>
           /\ Beyond(FoundEvents[Len(FoundEvents)], Newest, timeDirection)
           /\ Newest # FoundEvents[Len(FoundEvents)] ]_vars

(* C30 (as claimed): in every reachable SearchState, active and            *)
(* isCalculating are never both true, completed implies that both are      *)
(* false, and continuousPaused implies that one of them is true.           *)
C30_ModeFlagsConsistent ==
  /\ ~(searchState.active /\ searchState.isCalculating)
  /\ searchState.completed => (~searchState.active /\ ~searchState.isCalculating)
  /\ searchState.continuousPaused => (searchState.active \/ searchState.isCalculating)

----------------------------------------------------------------------------
(* Long runs: one search left to itself on a sky where the predicate never *)
(* holds, or holds only beyond the span cap.                               *)

LongHorizon == 731000

NeverSky == [period |-> 1, head |-> <<>>, run |-> 0, sub |-> <<OffCell>>, off |-> OffCell]

(* Mercury transits from day 730100 on, and stays in transit.              *)
LateSky == [period |-> 800000, head |-> <<>>, run |-> 730100, sub |-> <<OffCell>>,
            off |-> Near(400, 4000)]

LongSkies == {NeverSky, LateSky}
LongRequests == {[type |-> "TRANSIT", ids |-> <<"mercury">>, strict |-> FALSE]}

(* Continuous searches; the late transit is searched in Calculating mode.  *)
LongInit ==
  /\ sky \in LongSkies
  /\ settings \in {st \in InitialSettings : st.continuousIteration}
  /\ sky = LateSky => settings.allowCalculationSearch
  /\ SchedulerInit
  /\ probe = NoProbe

LongStart == \E req \in LongRequests : handleStart(req, "high", 0)
LongTick  == \E dt \in FrameDeltas : animate(dt, LongHorizon)
LongBatch == \E c \in Closures : runCalculationBatch(TRUE, c, LongHorizon, 0)

LongNext == LongStart \/ LongTick \/ LongBatch

SpecLong == LongInit /\ [][LongNext]_vars

(* The scan position of the search that is running.                        *)
ScanPosition == IF searchState.isCalculating THEN calcDateRef ELSE currentDate

(* C3 (as claimed): the scan loop is bounded by the cap on the simulated   *)
(* span - a running search never scans farther from its start than         *)
(* 2000 x 365 days plus the batch in which the cap is detected.            *)
C3_ScanBoundedBySpanCap ==
  Running =>
    Abs(ScanPosition - searchState.searchStartTime)
      <= (MAX_YEARS_SEARCHED * DAYS_PER_YEAR + BATCH_SIZE) * DAY

----------------------------------------------------------------------------
(* calculateEventDuration on its own: one call, its arguments and result   *)
(* kept in probe.                                                          *)

MaxCenterDay == 12

AlwaysSky == [period |-> 1, head |-> <<>>, run |-> 0, sub |-> <<OffCell>>,
              off |-> Near(400, 4000)]

(* Mercury in transit on the first `days` days of every 8000, and not on   *)
(* the others.                                                             *)
RunSky(days) == [period |-> 8000, head |-> <<>>, run |-> days,
                 sub |-> <<Near(400, 4000)>>, off |-> OffCell]

DurationSkies ==
  {DenseSky, AlwaysSky, NeverSky} \cup
  {RunSky(d) : d \in {EXPANSION_CAP_DAYS, EXPANSION_CAP_DAYS + 1,
                      EXPANSION_CAP_DAYS + 2, EXPANSION_CAP_DAYS + 10}}

DurationConfigs ==
  {[type |-> "TRANSIT", ids |-> <<"mercury">>, strictMode |-> FALSE,
    tolerance |-> tol, solarRadius |-> DEFAULT_SUN_ANGULAR_RADIUS_DEG]
     : tol \in {SavedTransitTolerance, DEFAULT_TOLERANCE}} \cup
  {[type |-> "PLANETARY_ALIGNMENT", ids |-> <<"jupiter", "mars">>, strictMode |-> FALSE,
    tolerance |-> SYSTEM_DEFAULTS.alignmentTolerance, solarRadius |-> 0]}

DurationInit ==
  /\ sky \in DurationSkies
  /\ settings = SYSTEM_DEFAULTS
  /\ SchedulerInit
  /\ probe = NoProbe

CallDuration ==
  /\ probe = NoProbe
  /\ \E d \in -MaxCenterDay..MaxCenterDay, cfg \in DurationConfigs :
       probe' = [fn |-> "calculateEventDuration", center |-> d * DAY, cfg |-> cfg,
                 result |-> calculateEventDuration(sky, d * DAY, cfg)]
  /\ UNCHANGED <<sky, settings, currentDate, isPlaying, timeDirection, searchState,
                 lastEventGuardRef, calcDateRef, calcTargetRef, timers, now,
                 lastRealTimeRef, speedMultiplier, trace>>

SpecDuration == DurationInit /\ [][CallDuration]_vars

DurationCalled == probe.fn = "calculateEventDuration"
CapDistance == EXPANSION_CAP_DAYS * DAY

(* C8: when the predicate holds at centerDate, the window returned has     *)
(* start <= centerDate <= end, start and end on the one-day grid through   *)
(* centerDate, the predicate true on every grid day from start to end,     *)
(* and - on a side where the cap was not hit - false one day beyond.       *)
C8_WindowOfPredicate ==
  (DurationCalled /\ check(sky, probe.cfg, probe.center)) =>
    LET w == probe.result
    IN  /\ w.start <= probe.center /\ probe.center <= w.end
        /\ (probe.center - w.start) % DAY = 0
        /\ (w.end - probe.center) % DAY = 0
        /\ \A k \in 0..((w.end - w.start) \div DAY) :
              check(sky, probe.cfg, w.start + k * DAY)
        /\ (probe.center - w.start <= CapDistance)
              => ~check(sky, probe.cfg, w.start - DAY)
        /\ (w.end - probe.center <= CapDistance)
              => ~check(sky, probe.cfg, w.end + DAY)

(* A call from inside a long run: the start was reached by the predicate   *)
(* failing, the end by the cap.                                            *)
C8_Witness ==
  /\ DurationCalled
  /\ check(sky, probe.cfg, probe.center)
  /\ probe.result.start < probe.center
  /\ probe.center - probe.result.start <= CapDistance
  /\ probe.result.end - probe.center > CapDistance

(* C9: whatever the predicate, each expansion loop stops within the cap    *)
(* plus one step: the window reaches at most 3651 days from centerDate on  *)
(* either side.                                                            *)
C9_ExpansionCapped ==
  DurationCalled =>
    /\ probe.center - probe.result.start <= CapDistance + DAY
    /\ probe.result.end - probe.center <= CapDistance + DAY
    /\ probe.result.start <= probe.center /\ probe.center <= probe.result.end

(* The predicate is true on every date: both loops stop at the cap.        *)
C9_Witness ==
  /\ DurationCalled
  /\ sky = AlwaysSky
  /\ probe.center - probe.result.start = CapDistance + DAY
  /\ probe.result.end - probe.center = CapDistance + DAY

----------------------------------------------------------------------------
(* findOptimalEventTime on its own: one call, its arguments and result     *)
(* (with the instants it probed) kept in probe.                            *)

MaxWindowDays == 3

(* The angle of Mercury rises and falls many times a day, in slots        *)
(* narrower than the coarse step of a window of three days.                *)
WavyAngles == <<700, 300, 700, 500, 300, 500, 700, 300, 700, 500,
                700, 700, 300, 500, 500, 700, 500, 300, 700, 700>>

WavySky ==
  [period |-> 1,
   head   |-> << [i \in 1..Len(WavyAngles) |-> Near(WavyAngles[i], 10 * WavyAngles[i])] >>,
   run |-> 0, sub |-> <<OffCell>>, off |-> OffCell]

OptimalSkies == {DenseSky, WavySky, AlwaysSky}

(* Window ends: whole days and instants inside a day.                      *)
OptimalTimes ==
  {d * DAY + f : d \in 0..MaxWindowDays, f \in {0, TicksPerDay \div 3, TicksPerDay \div 2}}

OptimalInit ==
  /\ sky \in OptimalSkies
  /\ settings = SYSTEM_DEFAULTS
  /\ SchedulerInit
  /\ probe = NoProbe

CallOptimal ==
  /\ probe = NoProbe
  /\ \E start \in OptimalTimes, end \in OptimalTimes, req \in Requests :
       /\ start <= end
       /\ ~req.strict
       /\ probe' = [fn |-> "findOptimalEventTime", start |-> start, end |-> end,
                    type |-> req.type, ids |-> SortIds(req.ids),
                    result |-> findOptimalEventTime(sky, start, end, req.type,
                                                    SortIds(req.ids))]
  /\ UNCHANGED <<sky, settings, currentDate, isPlaying, timeDirection, searchState,
                 lastEventGuardRef, calcDateRef, calcTargetRef, timers, now,
                 lastRealTimeRef, speedMultiplier, trace>>

SpecOptimal == OptimalInit /\ [][CallOptimal]_vars

OptimalCalled == probe.fn = "findOptimalEventTime"
ProbeMetric(t) == getAlignmentMetric(sky, t, probe.type, probe.ids)
CoarseSamples ==
  {probe.start + (i * (probe.end - probe.start)) \div COARSE_STEPS : i \in 0..COARSE_STEPS}

(* C10: the time returned lies in [start, end], the angle returned is the  *)
(* metric at that time and is the least metric over the coarse samples and *)
(* the probes of the ternary iterations - so no greater than the metric at *)
(* start and at end.                                                       *)
C10_BestOfAllProbes ==
  OptimalCalled =>
    LET r == probe.result
    IN  /\ probe.start <= r.time /\ r.time <= probe.end
        /\ r.angle = ProbeMetric(r.time)
        /\ CoarseSamples \subseteq r.probes
        /\ r.time \in r.probes
        /\ \A t \in r.probes : r.angle <= ProbeMetric(t)
        /\ r.angle <= ProbeMetric(probe.start)
        /\ r.angle <= ProbeMetric(probe.end)

(* A window on which the metric is not unimodal, whose best instant was    *)
(* found by a ternary probe strictly inside the window and is better than  *)
(* every coarse sample.                                                    *)
C10_Witness ==
  /\ OptimalCalled
  /\ probe.start < probe.result.time /\ probe.result.time < probe.end
  /\ probe.result.time \notin CoarseSamples
  /\ \A t \in CoarseSamples : probe.result.angle < ProbeMetric(t)
  /\ \E a, b, c \in CoarseSamples :
        /\ a < b /\ b < c
        /\ ProbeMetric(a) < ProbeMetric(b) /\ ProbeMetric(c) < ProbeMetric(b)

----------------------------------------------------------------------------
(* isTransit on its own: the calls isTransit(planetName, date, tol, ...)   *)
(* for one body, strict flag and solar radius and every tolerance of       *)
(* TransitTolerances, on a catalog; the results are kept in probe.         *)

CatalogOf(earth, mercury) ==
  LET pos(id) == IF id = "earth" THEN earth ELSE mercury
  IN  [id \in {i \in {"earth", "mercury"} : pos(i) # {}} |->
         CHOOSE v \in pos(id) : TRUE]

(* Earth: absent, or on the x axis.  Mercury: absent; between Earth and    *)
(* the Sun, on the line and 0.95 and 1.9 degrees off it; beyond the Sun;   *)
(* at the Earth; at the Sun.                                               *)
EarthChoices == {{}, {Vec(-100, 0, 0)}}

MercuryChoices ==
  {{}, {Vec(-40, 0, 0)}, {Vec(-40, 1, 0)}, {Vec(-40, 0, 2)}, {Vec(40, 1, 0)},
   {Vec(-100, 0, 0)}, {Origin}}

TransitSkies ==
  {[catalog |-> CatalogOf(e, m)] : e \in EarthChoices, m \in MercuryChoices}

TransitTolerances == {SavedTransitTolerance, DEFAULT_TOLERANCE, 2 * DEFAULT_TOLERANCE}

TransitInit ==
  /\ sky \in TransitSkies
  /\ settings = SYSTEM_DEFAULTS
  /\ SchedulerInit
  /\ probe = NoProbe

CallTransit ==
  /\ probe = NoProbe
  /\ \E planetName \in CatalogIds, strictMode \in BOOLEAN,
        solarRadiusDeg \in {DEFAULT_SUN_ANGULAR_RADIUS_DEG, DEFAULT_TOLERANCE} :
       probe' = [fn |-> "isTransit", planetName |-> planetName,
                 strictMode |-> strictMode, solarRadiusDeg |-> solarRadiusDeg,
                 result |-> [tol \in TransitTolerances |->
                               isTransit(sky, planetName, Today, tol, strictMode,
                                         solarRadiusDeg)]]
  /\ UNCHANGED <<sky, settings, currentDate, isPlaying, timeDirection, searchState,
                 lastEventGuardRef, calcDateRef, calcTargetRef, timers, now,
                 lastRealTimeRef, speedMultiplier, trace>>

SpecTransit == TransitInit /\ [][CallTransit]_vars

TransitCalled == probe.fn = "isTransit"

(* C11: isTransit is monotone in toleranceDeg - true with a tolerance, it  *)
(* is true with every greater one - and in strict mode its result is the   *)
(* same with every tolerance.                                              *)
C11_MonotoneInTolerance ==
  TransitCalled =>
    /\ \A t1, t2 \in TransitTolerances :
         (t1 <= t2 /\ probe.result[t1]) => probe.result[t2]
    /\ probe.strictMode =>
         \A t1, t2 \in TransitTolerances : probe.result[t1] = probe.result[t2]

(* A body whose transit is seen with the greater tolerances only.          *)
C11_Witness ==
  /\ TransitCalled
  /\ \E t1, t2 \in TransitTolerances : ~probe.result[t1] /\ probe.result[t2]
  /\ ~probe.strictMode

(* The positions the call of probe read, and the two distances and the     *)
(* angle test it made.                                                     *)
ProbeEarth  == getPositionHelper(sky.catalog, "earth")
ProbePlanet == getPositionHelper(sky.catalog, probe.planetName)
ProbeNearer ==
  magnitude(subtractVectors(ProbePlanet, ProbeEarth))
    < magnitude(subtractVectors(Origin, ProbeEarth))
ProbeAngle ==
  angleBetweenVectors3D(subtractVectors(Origin, ProbeEarth),
                        subtractVectors(ProbePlanet, ProbeEarth))

(* C12: isTransit is true only for a body strictly nearer to Earth than    *)
(* the Sun; for the target 'sun', for a target the catalog lacks and when  *)
(* the catalog lacks 'earth' it is false with every tolerance, although    *)
(* the angle it computes is 0 and passes the angle test.                   *)
C12_OnlyNearerThanSun ==
  TransitCalled =>
    /\ \A t \in TransitTolerances : probe.result[t] => ProbeNearer
    /\ ( \/ probe.planetName = "sun"
         \/ probe.planetName \notin DOMAIN sky.catalog \cup {"sun"}
         \/ "earth" \notin DOMAIN sky.catalog )
       => /\ \A t \in TransitTolerances : ~probe.result[t]
          /\ ProbeAngle = 0

(* The target is the Sun and Earth is in the catalog: the angle is 0, the  *)
(* two distances are equal.                                                *)
C12_Witness ==
  /\ TransitCalled
  /\ probe.planetName = "sun"
  /\ "earth" \in DOMAIN sky.catalog
  /\ ProbeAngle = 0
  /\ \A t \in TransitTolerances : ~probe.result[t]

----------------------------------------------------------------------------
(* checkSpecificAlignment on its own: the calls with one set of targets in *)
(* every order and one tolerance, and the guard key the scheduler builds   *)
(* for each order; the results are kept in probe.                          *)

AlignBodies == {"venus", "mars", "jupiter"}

(* Longitudes as getEclipticLongitude returns them, 360 included (the sum  *)
(* atan2 + 360 of a tiny negative angle rounds to 360).                    *)
AlignLongitudes == {0, 10000, 20000, 190000, 350000, FULL_CIRCLE}

AlignCell(lons) ==
  [ang  |-> [b \in Bodies |-> 90000],
   dist |-> [b \in Bodies |-> 5],
   lon  |-> [b \in Bodies |-> IF b \in AlignBodies THEN lons[b] ELSE 0],
   sunDist |-> 3]

AlignSkies ==
  {[period |-> 1, head |-> <<>>, run |-> 0, sub |-> <<OffCell>>, off |-> AlignCell(lons)]
     : lons \in [AlignBodies -> AlignLongitudes]}

AlignTolerances == {0, SYSTEM_DEFAULTS.alignmentTolerance, 20000, 180000, FULL_CIRCLE}

Orders(S) ==
  {p \in [1..Cardinality(S) -> S] : \A i, j \in 1..Cardinality(S) : p[i] = p[j] => i = j}

AlignInit ==
  /\ sky \in AlignSkies
  /\ settings = SYSTEM_DEFAULTS
  /\ SchedulerInit
  /\ probe = NoProbe

CallAlignment ==
  /\ probe = NoProbe
  /\ \E targets \in SUBSET AlignBodies, toleranceDeg \in AlignTolerances :
       probe' = [fn |-> "checkSpecificAlignment", targets |-> targets,
                 toleranceDeg |-> toleranceDeg,
                 result |-> [p \in Orders(targets) |->
                               checkSpecificAlignment(sky, Today, p, toleranceDeg)],
                 key |-> [p \in Orders(targets) |->
                            GuardKey("PLANETARY_ALIGNMENT", p)]]
  /\ UNCHANGED <<sky, settings, currentDate, isPlaying, timeDirection, searchState,
                 lastEventGuardRef, calcDateRef, calcTargetRef, timers, now,
                 lastRealTimeRef, speedMultiplier, trace>>

SpecAlignment == AlignInit /\ [][CallAlignment]_vars

AlignmentCalled == probe.fn = "checkSpecificAlignment"

(* C13: checkSpecificAlignment returns the same boolean, and the scheduler *)
(* builds the same guard key, for every order of the same targets.         *)
C13_OrderOfTargetsIrrelevant ==
  AlignmentCalled =>
    \A p, q \in Orders(probe.targets) :
       /\ probe.result[p] = probe.result[q]
       /\ probe.key[p] = probe.key[q]

(* Three targets whose longitudes are not in increasing order in some      *)
(* order of the call, aligned within the tolerance across 0 degrees.       *)
C13_Witness ==
  /\ AlignmentCalled
  /\ Cardinality(probe.targets) = 3
  /\ \E p \in Orders(probe.targets) :
        /\ probe.result[p]
        /\ SkyCell(sky, Today).lon[p[1]] > SkyCell(sky, Today).lon[p[2]]
        /\ SkyCell(sky, Today).lon[p[2]] < SkyCell(sky, Today).lon[p[3]]
  /\ probe.toleranceDeg < 180000

(* The targets lie on one arc of the circle no wider than the tolerance:   *)
(* from the longitude of one of them, every other is reached within        *)
(* toleranceDeg going round in the direction of increasing longitude.      *)
OnOneArc(targets, toleranceDeg) ==
  \E a \in targets : \A b \in targets :
     (SkyCell(sky, Today).lon[b] - SkyCell(sky, Today).lon[a]) % FULL_CIRCLE
        <= toleranceDeg

(* C14: with two or more targets checkSpecificAlignment is true exactly    *)
(* when the targets lie on one arc no wider than the tolerance; with fewer *)
(* than two it is false.                                                   *)
C14_TrueExactlyOnOneArc ==
  AlignmentCalled =>
    \A p \in Orders(probe.targets) :
       probe.result[p] = ( /\ Cardinality(probe.targets) >= 2
                           /\ OnOneArc(probe.targets, probe.toleranceDeg) )

(* Targets aligned on an arc that does not cross 0 degrees, so that the    *)
(* largest gap is the one from the last longitude round to the first.      *)
C14_Witness ==
  /\ AlignmentCalled
  /\ Cardinality(probe.targets) = 3
  /\ \A p \in Orders(probe.targets) : probe.result[p]
  /\ \A b \in probe.targets : SkyCell(sky, Today).lon[b] \in {10000, 20000}
  /\ probe.toleranceDeg = 20000

----------------------------------------------------------------------------
(* Playing and searching: the play controls, the Space key, the start and  *)
(* the stop of a search, frames and batches.                               *)

MinPlaySpeed == 4
MaxPlaySpeed == 16
PlayHorizon == 2

PlayFrameDeltas == {500, 1000}

PlayTick == \E dt \in PlayFrameDeltas : animate(dt, PlayHorizon)
PlayBatch ==
  \E fromLatest \in BOOLEAN, c \in Closures :
     runCalculationBatch(fromLatest, c, PlayHorizon, MaxStray)
TogglePlay == onTogglePlay
PlaySlower == speedMultiplier > MinPlaySpeed /\ onPlaySpeedChange(TRUE)
PlayFaster == speedMultiplier < MaxPlaySpeed /\ onPlaySpeedChange(FALSE)
PlayDirection == ~searchActive /\ onToggleTimeDirection
PlaySpace == handleKeyDown(MaxStray)

PlayNext ==
  \/ PlayTick \/ PlayBatch \/ Start \/ Stop \/ TogglePlay \/ PlaySlower
  \/ PlayFaster \/ PlayDirection \/ PlaySpace

SpecPlay == Init /\ [][PlayNext]_vars

(* C15: a frame adds the play-rate advancement to currentDate exactly when *)
(* isPlaying is true and no search is active.  A frame of a Calculating    *)
(* or paused search leaves currentDate alone, and what a frame of a        *)
(* Searching search does is the same whatever the frame's delta.           *)
C15_PlayOnlyWithoutSearch ==
  [][ \A dt \in PlayFrameDeltas : animate(dt, PlayHorizon) =>
        /\ (isPlaying /\ ~searchState.active /\ ~searchState.isCalculating)
             => currentDate' = currentDate + PlayAdvance(dt)
        /\ (~isPlaying /\ ~searchState.active /\ ~searchState.isCalculating)
             => currentDate' = currentDate
        /\ searchState.isCalculating => currentDate' = currentDate
        /\ (searchState.active /\ searchState.continuousPaused /\ settings.continuousIteration)
             => currentDate' = currentDate
        /\ (searchState.active \/ searchState.isCalculating)
             => \A other \in PlayFrameDeltas : animate(other, PlayHorizon) ]_vars

(* A date reached by playing backwards at twice the rate, with a search    *)
(* in progress whose frames have moved the date while the rate was not 1.  *)
C15_Witness ==
  /\ searchState.active
  /\ speedMultiplier > 8
  /\ timeDirection = -1
  /\ currentDate # searchState.searchStartTime
  /\ searchState.searchStartTime % DAY # 0

----------------------------------------------------------------------------
(* core/projection: project3D                                              *)
(*                                                                         *)
(* Positions are integers; sines, cosines, the scale factor and opacities  *)
(* are in thousandths (Unit is 1.0); screen lengths are whole pixels.  A   *)
(* product of two numbers in thousandths is brought back to thousandths    *)
(* by an integer division.                                                 *)

Unit == 1000
BASE_PROXIMITY_CONST == 2000
INFINITE_CAMERA_DIST == 100000
TIER_2_IDS == {"jupiter", "saturn", "uranus", "neptune"}
TIER_2_MIN_OPACITY == 300
NEAR_PLANE == 100
FADE_RANGE == 300
INNER_NEAR_PLANE == 50
INNER_FADE_RANGE == 150
MIN_VISIBLE_OPACITY == 10

(* Math.sin and Math.cos of an angle in degrees, in thousandths.           *)
Sin(deg) ==
  CASE deg = -90 -> -1000 [] deg = -30 -> -500 [] deg = 0 -> 0 [] deg = 30 -> 500
    [] deg = 90 -> 1000 [] deg = 180 -> 0 [] deg = 210 -> -500 [] deg = 270 -> -1000

Cos(deg) ==
  CASE deg = -90 -> 0 [] deg = -30 -> 866 [] deg = 0 -> 1000 [] deg = 30 -> 866
    [] deg = 90 -> 0 [] deg = 180 -> -1000 [] deg = 210 -> -866 [] deg = 270 -> 0

(* A plausible fault: the pivot is not subtracted.                         *)
RelativeToOrigin(pos, centerOfRotation) == pos

(* Step 1: translate relative to the rotation center.                      *)
RelativeToPivot(pos, centerOfRotation) == subtractVectors(pos, centerOfRotation)

(* Step 2: rotate around the z axis; the result is in thousandths.         *)
Yawed(rel, yaw) ==
  [x |-> rel.x * Cos(yaw) - rel.y * Sin(yaw),
   y |-> rel.x * Sin(yaw) + rel.y * Cos(yaw),
   z |-> rel.z * Unit]

(* Step 3: tilt and project; x, y and depth in pixels.                     *)
Ortho(v, tilt, scale) ==
  [x |-> (v.x * scale) \div Unit,
   y |-> ((-((v.y * Sin(tilt) + v.z * Cos(tilt)) \div Unit)) * scale) \div Unit,
   depth |-> (((v.z * Sin(tilt) - v.y * Cos(tilt)) \div Unit) * scale) \div Unit]

EffectiveCameraDist(enableProximitySim, zoomK) ==
  IF enableProximitySim THEN BASE_PROXIMITY_CONST \div zoomK ELSE INFINITE_CAMERA_DIST

(* A plausible fault: everything up to the near plane is culled.           *)
BehindNearPlane(dist) == dist <= NEAR_PLANE

(* Hard culling: if (dist <= 0)                                            *)
BehindCamera(dist) == dist <= 0

(* val of a fade window [nearPlane, nearPlane + fadeRange).                *)
Fade(dist, nearPlane, fadeRange) ==
  IF dist <= nearPlane THEN 0
  ELSE IF dist < nearPlane + fadeRange THEN ((dist - nearPlane) * Unit) \div fadeRange
  ELSE Unit

ProximityOpacity(id, dist) ==
  IF id = "sun" THEN Unit
  ELSE IF id \in TIER_2_IDS
  THEN Max2(Fade(dist, NEAR_PLANE, FADE_RANGE), TIER_2_MIN_OPACITY)
  ELSE IF id = "mercury" \/ id = "venus"
  THEN Fade(dist, INNER_NEAR_PLANE, INNER_FADE_RANGE)
  ELSE Fade(dist, NEAR_PLANE, FADE_RANGE)

Projected(o, scaleFactor, proximityOpacity) ==
  [x |-> (o.x * scaleFactor) \div Unit,
   y |-> (o.y * scaleFactor) \div Unit,
   depth |-> o.depth,
   scaleFactor |-> scaleFactor,
   isVisible |-> ~(proximityOpacity < MIN_VISIBLE_OPACITY),
   opacity |-> proximityOpacity]

Perspective(o, camera, dist, id) ==
  IF BehindCamera(dist)
  THEN [x |-> 0, y |-> 0, depth |-> o.depth, scaleFactor |-> 0,
        isVisible |-> FALSE, opacity |-> 0]
  ELSE Projected(o, (camera * Unit) \div dist, ProximityOpacity(id, dist))

Viewed(o, view, zoomK, id) ==
  IF view.enablePerspective
  THEN Perspective(o, EffectiveCameraDist(view.enableProximitySim, zoomK),
                   EffectiveCameraDist(view.enableProximitySim, zoomK) - o.depth, id)
  ELSE Projected(o, Unit, Unit)

(* view is the part of AppSettings project3D reads; id "none" is an        *)
(* omitted id.                                                             *)
project3D(pos, scale, view, zoomK, id, centerOfRotation) ==
  Viewed(Ortho(Yawed(RelativeToPivot(pos, centerOfRotation), view.viewYaw),
               view.viewTilt, scale),
         view, zoomK, id)

(* project3D on its own: one call, its arguments and result kept in probe. *)

Views ==
  [viewTilt : {-90, 0, 30, 90}, viewYaw : {0, 90, 210},
   enablePerspective : BOOLEAN, enableProximitySim : BOOLEAN]

ProjectedPositions ==
  {Origin, Vec(3, 0, 0), Vec(0, -2, 0), Vec(0, 2, 0), Vec(0, -3, 1), Vec(1, 2, -3),
   Vec(0, -8, 0), Vec(0, 8, 0)}

Pivots == {Origin, Vec(3, 0, 0), Vec(0, -2, 0)}

Scales == {50, 65}

Zooms == {1, 10, 20}

ProjectedIds == {"sun", "jupiter", "mercury", "earth", "none"}

ProjectionInit ==
  /\ sky \in Skies
  /\ settings = SYSTEM_DEFAULTS
  /\ SchedulerInit
  /\ probe = NoProbe

CallProject ==
  /\ probe = NoProbe
  /\ \E pos \in ProjectedPositions, scale \in Scales, view \in Views,
        zoomK \in Zooms, id \in ProjectedIds, centerOfRotation \in Pivots :
       probe' = [fn |-> "project3D", pos |-> pos, scale |-> scale, view |-> view,
                 zoomK |-> zoomK, id |-> id, centerOfRotation |-> centerOfRotation,
                 result |-> project3D(pos, scale, view, zoomK, id, centerOfRotation)]
  /\ UNCHANGED <<sky, settings, currentDate, isPlaying, timeDirection, searchState,
                 lastEventGuardRef, calcDateRef, calcTargetRef, timers, now,
                 lastRealTimeRef, speedMultiplier, trace>>

SpecProjection == ProjectionInit /\ [][CallProject]_vars

ProjectCalled == probe.fn = "project3D"

(* C17: the pivot itself is projected to x = 0, y = 0, depth = 0, whatever *)
(* the yaw, tilt, scale, zoom, id and flags.                               *)
C17_PivotProjectsToOrigin ==
  (ProjectCalled /\ probe.pos = probe.centerOfRotation) =>
     /\ probe.result.x = 0
     /\ probe.result.y = 0
     /\ probe.result.depth = 0

(* The pivot is not the origin, the view is turned and tilted, and the     *)
(* perspective is on.                                                      *)
C17_Witness ==
  /\ ProjectCalled
  /\ probe.pos = probe.centerOfRotation
  /\ probe.pos # Origin
  /\ probe.view.viewYaw = 210
  /\ probe.view.viewTilt = 30
  /\ probe.view.enablePerspective /\ probe.view.enableProximitySim
  /\ probe.result.isVisible

(* The camera distance and the distance of the point of the call.          *)
ProbeCamera == EffectiveCameraDist(probe.view.enableProximitySim, probe.zoomK)
ProbeDist == ProbeCamera - probe.result.depth

(* C18: with perspective, the points with dist <= 0 and only they are      *)
(* culled (scaleFactor 0, not visible, opacity 0), whatever the id, and    *)
(* the others get scaleFactor = cameraDistance / dist > 0; without         *)
(* perspective no point is culled and scaleFactor is 1.                    *)
C18_CulledExactlyBehindCamera ==
  ProjectCalled =>
    IF probe.view.enablePerspective
    THEN IF ProbeDist <= 0
         THEN /\ probe.result.scaleFactor = 0
              /\ ~probe.result.isVisible
              /\ probe.result.opacity = 0
         ELSE /\ probe.result.scaleFactor = (ProbeCamera * Unit) \div ProbeDist
              /\ probe.result.scaleFactor > 0
    ELSE /\ probe.result.scaleFactor = Unit
         /\ probe.result.isVisible
         /\ probe.result.opacity = Unit

(* The Sun exactly at the camera: dist = 0.                                *)
C18_Witness ==
  /\ ProjectCalled
  /\ probe.view.enablePerspective
  /\ probe.id = "sun"
  /\ ProbeDist = 0
  /\ probe.result.scaleFactor = 0

(* C19 (as claimed): for the always-visible tier and the Sun the opacity   *)
(* is 1.0 wherever the point is not culled.                                *)
C19_TierAlwaysOpaque ==
  ( /\ ProjectCalled
    /\ probe.id \in TIER_2_IDS \cup {"sun"}
    /\ ~(probe.view.enablePerspective /\ ProbeDist <= 0) )
  => probe.result.opacity = Unit

----------------------------------------------------------------------------
(* core/renderConfig: calculateBodyOpacity                                 *)
(*                                                                         *)
(* Zoom levels, thresholds and opacities are exact fractions [n, d] in     *)
(* lowest terms with d > 0; semi-major axes are in tenths of an AU.        *)

RECURSIVE GCD(_, _)
GCD(a, b) == IF b = 0 THEN Abs(a) ELSE GCD(Abs(b), Abs(a) % Abs(b))

Frac(n, d) ==
  LET g == GCD(n, d)
  IN  IF d < 0 THEN [n |-> (-n) \div g, d |-> (-d) \div g]
      ELSE [n |-> n \div g, d |-> d \div g]

One == Frac(1, 1)
Zero == Frac(0, 1)

FAdd(a, b) ==
  LET l == (a.d \div GCD(a.d, b.d)) * b.d
  IN  Frac(a.n * (l \div a.d) + b.n * (l \div b.d), l)

FNeg(a) == [n |-> -a.n, d |-> a.d]

FSub(a, b) == FAdd(a, FNeg(b))

FMul(a, b) ==
  LET g1 == GCD(a.n, b.d)
      g2 == GCD(b.n, a.d)
  IN  Frac((a.n \div g1) * (b.n \div g2), (a.d \div g2) * (b.d \div g1))

FDiv(a, b) == FMul(a, [n |-> b.d, d |-> b.n])

FLess(a, b) == FSub(a, b).n < 0

FMin(a, b) == IF FLess(b, a) THEN b ELSE a
FMax(a, b) == IF FLess(a, b) THEN b ELSE a

INNER_SYSTEM_LIMIT_AU == 40
OUTER_SYSTEM_LIMIT_AU == 350

TRUE_SCALE_RATIO == Frac(23500, 65)

SCHEMATIC_THRESHOLDS ==
  [INNER |-> Frac(34, 100), OUTER |-> Frac(28, 100), COMET |-> Frac(33, 100)]

(* t * t * (3 - 2 * t) with t = max(0, min(1, (x - edge0) / (edge1 - edge0))) *)
smoothStep(edge0, edge1, x) ==
  LET t == FMax(Zero, FMin(One, FDiv(FSub(x, edge0), FSub(edge1, edge0))))
  IN  FMul(FMul(t, t), FSub(Frac(3, 1), FMul(Frac(2, 1), t)))

getThreshold(type, isTrueScale) ==
  IF isTrueScale THEN FDiv(SCHEMATIC_THRESHOLDS[type], TRUE_SCALE_RATIO)
  ELSE SCHEMATIC_THRESHOLDS[type]

(* A plausible fault: the performance setting fades like the standard one. *)
getOpacityFromQualityFading(quality, k, threshold, mode) ==
  LET range == FMul(threshold, Frac(2, 10))
      min   == FSub(threshold, FDiv(range, Frac(2, 1)))
      max   == FAdd(threshold, FDiv(range, Frac(2, 1)))
  IN  IF mode = "IN"
      THEN IF quality = "eco" THEN (IF FLess(threshold, k) THEN One ELSE Zero)
           ELSE smoothStep(min, max, k)
      ELSE IF quality = "eco" THEN (IF FLess(k, threshold) THEN One ELSE Zero)
           ELSE FSub(One, smoothStep(min, max, k))

getOpacityFromQuality(quality, k, threshold, mode) ==
  LET range == FMul(threshold, Frac(2, 10))
      min   == FSub(threshold, FDiv(range, Frac(2, 1)))
      max   == FAdd(threshold, FDiv(range, Frac(2, 1)))
  IN  IF quality = "performance" THEN One
      ELSE IF mode = "IN"
      THEN IF quality = "eco" THEN (IF FLess(threshold, k) THEN One ELSE Zero)
           ELSE smoothStep(min, max, k)
      ELSE IF quality = "eco" THEN (IF FLess(k, threshold) THEN One ELSE Zero)
           ELSE FSub(One, smoothStep(min, max, k))

(* body is [id, a, category, type]; "none" is an absent category or type.  *)
calculateBodyOpacity(body, k, renderSettings, isTrueScale) ==
  LET a == body.a
      isComet == body.category = "COMET" \/ body.type = "comet" \/ body.type = "asteroid"
      isPlanetOrDwarf == \/ body.category = "PLANET" \/ body.category = "DWARF"
                         \/ body.type = "planet" \/ body.type = "dwarf"
  IN  IF body.id = "sun" THEN One
      ELSE IF isComet
      THEN IF a <= INNER_SYSTEM_LIMIT_AU
           THEN getOpacityFromQuality(renderSettings.cometQuality, k,
                                      getThreshold("COMET", isTrueScale), "IN")
           ELSE One
      ELSE IF isPlanetOrDwarf /\ a <= INNER_SYSTEM_LIMIT_AU
      THEN getOpacityFromQuality(renderSettings.innerQuality, k,
                                 getThreshold("INNER", isTrueScale), "IN")
      ELSE IF isPlanetOrDwarf /\ a >= OUTER_SYSTEM_LIMIT_AU
      THEN getOpacityFromQuality(renderSettings.outerQuality, k,
                                 getThreshold("OUTER", isTrueScale), "OUT")
      ELSE One

(* calculateBodyOpacity on its own: one call, kept in probe.               *)

Body(id, a, category, type) == [id |-> id, a |-> a, category |-> category, type |-> type]

OpacityBodies ==
  {Body("sun", 0, "STAR", "star"), Body("mercury", 4, "PLANET", "planet"),
   Body("ceres", 28, "DWARF", "dwarf"), Body("hilda", 40, "none", "dwarf"),
   Body("jupiter", 52, "PLANET", "planet"), Body("chiron", 137, "DWARF", "none"),
   Body("pholus", 350, "none", "planet"), Body("pluto", 395, "DWARF", "dwarf"),
   Body("encke", 22, "COMET", "comet"), Body("halley", 178, "COMET", "comet"),
   Body("vesta", 24, "none", "asteroid"), Body("moon", 10, "none", "moon")}

SchematicZooms ==
  {Frac(1, 10), Frac(26, 100), Frac(28, 100), Frac(3, 10), Frac(33, 100),
   Frac(34, 100), Frac(35, 100), Frac(5, 1)}

OpacityZooms == SchematicZooms \cup {FDiv(k, TRUE_SCALE_RATIO) : k \in SchematicZooms}

Qualities == {"performance", "eco", "standard"}

RenderSettings ==
  [innerQuality : Qualities, outerQuality : Qualities, cometQuality : Qualities]

OpacityInit ==
  /\ sky \in Skies
  /\ settings = SYSTEM_DEFAULTS
  /\ SchedulerInit
  /\ probe = NoProbe

CallOpacity ==
  /\ probe = NoProbe
  /\ \E body \in OpacityBodies, k \in OpacityZooms, rs \in RenderSettings,
        isTrueScale \in BOOLEAN :
       probe' = [fn |-> "calculateBodyOpacity", body |-> body, k |-> k,
                 renderSettings |-> rs, isTrueScale |-> isTrueScale,
                 result |-> calculateBodyOpacity(body, k, rs, isTrueScale)]
  /\ UNCHANGED <<sky, settings, currentDate, isPlaying, timeDirection, searchState,
                 lastEventGuardRef, calcDateRef, calcTargetRef, timers, now,
                 lastRealTimeRef, speedMultiplier, trace>>

SpecOpacity == OpacityInit /\ [][CallOpacity]_vars

OpacityCalled == probe.fn = "calculateBodyOpacity"

(* The quality setting that governs the body of the call: that of comets   *)
(* and asteroids within 4 AU, of planets and dwarfs within 4 AU, of        *)
(* planets and dwarfs from 35 AU on; "none" for the others.                *)
ProbeCometLike == probe.body.category = "COMET" \/ probe.body.type \in {"comet", "asteroid"}
ProbePlanetLike ==
  probe.body.category \in {"PLANET", "DWARF"} \/ probe.body.type \in {"planet", "dwarf"}
ProbeQuality ==
  IF probe.body.id = "sun" THEN "none"
  ELSE IF ProbeCometLike
  THEN (IF probe.body.a <= INNER_SYSTEM_LIMIT_AU THEN probe.renderSettings.cometQuality
        ELSE "none")
  ELSE IF ProbePlanetLike /\ probe.body.a <= INNER_SYSTEM_LIMIT_AU
  THEN probe.renderSettings.innerQuality
  ELSE IF ProbePlanetLike /\ probe.body.a >= OUTER_SYSTEM_LIMIT_AU
  THEN probe.renderSettings.outerQuality
  ELSE "none"

----------------------------------------------------------------------------
(* core/renderConfig holds a second definition of calculateBodyOpacity,    *)
(* with the signature (id, semiMajorAxis, k, settings, isTrueScale) that   *)
(* the true-scale renderer calls.                                          *)

INNER_SYSTEM_THRESHOLD_AU == 48

getBodyGroup(id, semiMajorAxis) ==
  IF id = "sun" THEN "sun"
  ELSE IF semiMajorAxis < INNER_SYSTEM_THRESHOLD_AU THEN "inner"
  ELSE "outer"

InnerFade(isTrueScale) ==
  IF isTrueScale
  THEN [fadeStart |-> Frac(2, 1000), fadeEnd |-> Frac(6, 1000), cutoff |-> Frac(3, 1000)]
  ELSE [fadeStart |-> Frac(3, 10), fadeEnd |-> Frac(6, 10), cutoff |-> Frac(35, 100)]

OuterFade(isTrueScale) ==
  IF isTrueScale
  THEN [fadeStart |-> Frac(5, 1000), fadeEnd |-> Frac(2, 100), cutoff |-> Frac(1, 100)]
  ELSE [fadeStart |-> Frac(4, 10), fadeEnd |-> Frac(9, 10), cutoff |-> Frac(15, 100)]

calculateBodyOpacityById(id, semiMajorAxis, k, renderSettings, isTrueScale) ==
  LET group == getBodyGroup(id, semiMajorAxis)
      inner == InnerFade(isTrueScale)
      outer == OuterFade(isTrueScale)
  IN  IF group = "sun" THEN One
      ELSE IF id \in TIER_2_IDS THEN One
      ELSE IF group = "inner"
      THEN IF renderSettings.innerQuality = "performance" THEN One
           ELSE IF renderSettings.innerQuality = "eco"
           THEN (IF FLess(inner.cutoff, k) THEN One ELSE Zero)
           ELSE smoothStep(inner.fadeStart, inner.fadeEnd, k)
      ELSE IF renderSettings.outerQuality = "performance" THEN One
           ELSE IF renderSettings.outerQuality = "eco"
           THEN (IF FLess(k, outer.cutoff) THEN One ELSE Zero)
           ELSE FSub(One, smoothStep(outer.fadeStart, outer.fadeEnd, k))

(* The level of detail of one body at one physical zoom in the two display *)
(* modes: zoom k in the schematic mode, k / TRUE_SCALE_RATIO in the true   *)
(* scale mode.  The module exports calculateBodyOpacity twice; which of    *)
(* the two definitions serves the calls is not decided by the source.      *)
Definitions == {"byBody", "byId"}

OpacityIn(definition, body, k, renderSettings, isTrueScale) ==
  IF definition = "byBody"
  THEN calculateBodyOpacity(body, k, renderSettings, isTrueScale)
  ELSE calculateBodyOpacityById(body.id, body.a, k, renderSettings, isTrueScale)

CallBothModes ==
  /\ probe = NoProbe
  /\ \E body \in OpacityBodies, k \in SchematicZooms, rs \in RenderSettings,
        definition \in Definitions :
       probe' = [fn |-> "levelOfDetail", body |-> body, k |-> k,
                 renderSettings |-> rs, definition |-> definition,
                 schematic |-> OpacityIn(definition, body, k, rs, FALSE),
                 trueScale |-> OpacityIn(definition, body, FDiv(k, TRUE_SCALE_RATIO),
                                         rs, TRUE)]
  /\ UNCHANGED <<sky, settings, currentDate, isPlaying, timeDirection, searchState,
                 lastEventGuardRef, calcDateRef, calcTargetRef, timers, now,
                 lastRealTimeRef, speedMultiplier, trace>>

SpecLevelOfDetail == OpacityInit /\ [][CallBothModes]_vars

(* C21 (as claimed): the opacity of a body is the same in the two display  *)
(* modes at the same physical zoom, with every quality setting.            *)
C21_SameOpacityInBothModes ==
  probe.fn = "levelOfDetail" => probe.schematic = probe.trueScale

----------------------------------------------------------------------------
(* Body positions.  Angles of the elements are in millidegrees, radians in *)
(* thousandths, sines and cosines in thousandths, lengths in thousandths   *)
(* of an AU, and a date is its whole number of days after J2000.           *)

TDiv(a, b) == IF a < 0 THEN -((-a) \div b) ELSE a \div b

PI == 3142

deg2rad(deg) == TDiv(deg * PI, 180000)

normalizeAngle(deg) ==
  LET res == IF deg < 0 THEN -((-deg) % FULL_CIRCLE) ELSE deg % FULL_CIRCLE
  IN  IF res < 0 THEN res + FULL_CIRCLE ELSE res

(* Math.sin and Math.cos: the argument is brought into [-PI/2, PI/2] and   *)
(* the series is summed up to the ninth power.                             *)
SinSeries(x, x2, t3) ==
  x - t3 + TDiv(t3 * x2, 20000) - TDiv(TDiv(t3 * x2, 20000) * x2, 42000)

SinCore(x) == SinSeries(x, (x * x) \div 1000, TDiv(x * ((x * x) \div 1000), 6000))

SinFolded(r) ==
  IF r > PI + PI \div 2 THEN SinCore(r - 2 * PI)
  ELSE IF r > PI \div 2 THEN SinCore(PI - r)
  ELSE SinCore(r)

MathSin(x) == SinFolded(((x % (2 * PI)) + 2 * PI) % (2 * PI))

MathCos(x) == MathSin(x + PI \div 2)

RECURSIVE SqrtBetween(_, _, _)
SqrtBetween(n, lo, hi) ==
  IF hi - lo <= 1 THEN lo
  ELSE IF ((lo + hi) \div 2) * ((lo + hi) \div 2) <= n
       THEN SqrtBetween(n, (lo + hi) \div 2, hi)
       ELSE SqrtBetween(n, lo, (lo + hi) \div 2)

MathSqrt(n) == SqrtBetween(n, 0, 46340)

KEPLER_ITERATIONS == 100

(* One Newton-Raphson step of solveKepler.  The tolerance 1e-6 is below    *)
(* one thousandth of a radian: the loop breaks on a step of zero.          *)
KeplerStep(E, e, M_rad) ==
  TDiv((E - TDiv(e * MathSin(E), 1000) - M_rad) * 1000,
       1000 - TDiv(e * MathCos(E), 1000))

RECURSIVE KeplerLoop(_, _, _, _, _)
KeplerLoop(i, E, deltaE, e, M_rad) ==
  IF deltaE = 0 \/ i >= KEPLER_ITERATIONS THEN E - deltaE
  ELSE KeplerLoop(i + 1, E - deltaE, KeplerStep(E - deltaE, e, M_rad), e, M_rad)

solveKepler(M, e) ==
  KeplerLoop(1, deg2rad(M), KeplerStep(deg2rad(M), e, deg2rad(M)), e, deg2rad(M))

Elements(a, e, i, N, w, M) == [a |-> a, e |-> e, i |-> i, N |-> N, w |-> w, M |-> M]

MEAN_MOTION == 985608

(* elements.a ^ 1.5, in hundred-thousandths *)
PowThreeHalves(a) == (a * MathSqrt(a * 1000)) \div 10

(* n * 10^k \div d for 0 <= n, digit by digit *)
RECURSIVE DivDigits(_, _, _, _)
DivDigits(r, d, k, acc) ==
  IF k = 0 THEN acc
  ELSE DivDigits((r * 10) % d, d, k - 1, acc * 10 + (r * 10) \div d)

(* n * dayDiff in millidegrees, n = 0.9856076686 / a ^ 1.5 degrees a day *)
Swept(a15, days) ==
  IF days < 0 THEN -DivDigits((MEAN_MOTION * (-days)) % a15, a15, 2,
                              (MEAN_MOTION * (-days)) \div a15)
  ELSE DivDigits((MEAN_MOTION * days) % a15, a15, 2, (MEAN_MOTION * days) \div a15)

MeanAnomaly(elements, dayDiff) ==
  normalizeAngle(elements.M + Swept(PowThreeHalves(elements.a), dayDiff))

(* r * cos(u) and r * sin(u) for u = v + w, v = atan2(yv, xv) and          *)
(* r = sqrt(xv * xv + yv * yv), by the addition formulas.                  *)
InPlane(xv, yv, w) ==
  [c |-> TDiv(xv * MathCos(w) - yv * MathSin(w), 1000),
   s |-> TDiv(xv * MathSin(w) + yv * MathCos(w), 1000)]

Oriented(p, i, N) ==
  Vec(TDiv(MathCos(N) * p.c - TDiv(MathSin(N) * MathCos(i), 1000) * p.s, 1000),
      TDiv(MathSin(N) * p.c + TDiv(MathCos(N) * MathCos(i), 1000) * p.s, 1000),
      TDiv(p.s * MathSin(i), 1000))

KeplerAt(elements, E) ==
  Oriented(InPlane(TDiv(elements.a * (MathCos(E) - elements.e), 1000),
                   TDiv(TDiv(elements.a * MathSqrt(1000000 - elements.e * elements.e), 1000)
                          * MathSin(E), 1000),
                   deg2rad(elements.w)),
           deg2rad(elements.i), deg2rad(elements.N))

calculateKeplerPosition(elements, date) ==
  KeplerAt(elements, solveKepler(MeanAnomaly(elements, date), elements.e))

(* The Astronomy global of the page: absent, or present with HelioVector   *)
(* answering helio, or present with a call that throws.                    *)
Libraries == {"absent", "working", "throwing"}

AstronomyBodies ==
  {"mercury", "venus", "earth", "mars", "jupiter", "saturn", "uranus", "neptune",
   "pluto", "moon"}

OBLIQUITY == 23439

(* The body of the try block: the equatorial vector turned to the ecliptic *)
Ecliptic(vec) ==
  Vec(vec.x,
      TDiv(vec.y * MathCos(deg2rad(OBLIQUITY)) + vec.z * MathSin(deg2rad(OBLIQUITY)), 1000),
      TDiv(vec.z * MathCos(deg2rad(OBLIQUITY)) - vec.y * MathSin(deg2rad(OBLIQUITY)), 1000))

Caught(outcome) == IF outcome.kind = "error" THEN [kind |-> "null"] ELSE outcome

calculateHighPrecisionPosition(id, library, helio) ==
  IF library = "absent" THEN [kind |-> "null"]
  ELSE IF id \notin AstronomyBodies THEN [kind |-> "null"]
  ELSE Caught(IF library = "throwing" THEN [kind |-> "error"]
              ELSE [kind |-> "position", pos |-> Ecliptic(helio)])

ConsultsAdapterAlways(useHighPrecision) == TRUE

ConsultsAdapter(useHighPrecision) == useHighPrecision

(* The outcome of calculateBodyPosition with the sources it invoked *)
FromKepler(elements, date, calls) ==
  [kind |-> "position", pos |-> calculateKeplerPosition(elements, date),
   calls |-> calls \cup {"kepler"}]

FromAdapter(hpPos, elements, date) ==
  IF hpPos.kind = "position" THEN [kind |-> "position", pos |-> hpPos.pos, calls |-> {"adapter"}]
  ELSE IF hpPos.kind = "error" THEN [kind |-> "error", calls |-> {"adapter"}]
  ELSE FromKepler(elements, date, {"adapter"})

calculateBodyPosition(id, elements, date, useHighPrecision, library, helio) ==
  IF id = "sun" THEN [kind |-> "position", pos |-> Origin, calls |-> {}]
  ELSE IF ConsultsAdapter(useHighPrecision)
  THEN FromAdapter(calculateHighPrecisionPosition(id, library, helio), elements, date)
  ELSE FromKepler(elements, date, {})

PositionIds == {"sun", "mercury", "earth", "moon", "ceres", "halley"}

PositionElements ==
  {Elements(387, 206, 7005, 48331, 29124, 174796),
   Elements(1000, 17, 0, 0, 102937, 357529),
   Elements(2767, 76, 10593, 80393, 73597, 77372),
   Elements(17834, 967, 162260, 58420, 111330, 38380)}

MaxPositionDay == 2

PositionDates == {d * 500 : d \in (0 - MaxPositionDay)..MaxPositionDay}

HelioVectors == {Vec(300, -200, -100), Vec(-900, 400, 170)}

PositionInit ==
  /\ sky \in Skies
  /\ settings = SYSTEM_DEFAULTS
  /\ SchedulerInit
  /\ probe = NoProbe

CallPosition ==
  /\ probe = NoProbe
  /\ \E id \in PositionIds, elements \in PositionElements, date \in PositionDates,
        useHighPrecision \in BOOLEAN, library \in Libraries, helio \in HelioVectors :
       probe' = [fn |-> "calculateBodyPosition", id |-> id, elements |-> elements,
                 date |-> date, useHighPrecision |-> useHighPrecision,
                 library |-> library, helio |-> helio,
                 adapter |-> calculateHighPrecisionPosition(id, library, helio),
                 kepler |-> calculateKeplerPosition(elements, date),
                 result |-> calculateBodyPosition(id, elements, date, useHighPrecision,
                                                  library, helio)]
  /\ UNCHANGED <<sky, settings, currentDate, isPlaying, timeDirection, searchState,
                 lastEventGuardRef, calcDateRef, calcTargetRef, timers, now,
                 lastRealTimeRef, speedMultiplier, trace>>

SpecPosition == PositionInit /\ [][CallPosition]_vars

PositionCalled == probe.fn = "calculateBodyPosition"

(* C22: calculateBodyPosition invokes the high-precision adapter only when *)
(* useHighPrecision is true; when the adapter gives no position (unknown   *)
(* id, library absent, or a call that throws) the result is the Kepler     *)
(* position and no error propagates; for the sun the result is the origin  *)
(* and neither source is invoked.                                          *)
C22_AdapterOnlyOnRequestKeplerOtherwise ==
  PositionCalled =>
    /\ probe.result.kind = "position"
    /\ "adapter" \in probe.result.calls => probe.useHighPrecision
    /\ (probe.id # "sun" /\ probe.adapter.kind # "position") =>
         probe.result.pos = probe.kepler
    /\ probe.id = "sun" => (probe.result.pos = Origin /\ probe.result.calls = {})

C22_Witness ==
  /\ PositionCalled
  /\ probe.useHighPrecision
  /\ probe.id = "mercury"
  /\ probe.library = "throwing"
  /\ probe.result.calls = {"adapter", "kepler"}
  /\ probe.result.pos = probe.kepler
  /\ probe.kepler # Origin


----------------------------------------------------------------------------
(* Continuous searches over transits that outlast the expansion cap: one   *)
(* search, started once and left to run, in either direction.              *)

CappedHorizon == 20000

CappedSkies ==
  {AlwaysSky} \cup
  {RunSky(d) : d \in {EXPANSION_CAP_DAYS - 10, EXPANSION_CAP_DAYS + 10,
                      EXPANSION_CAP_DAYS + 100}}

CappedInit ==
  /\ sky \in CappedSkies
  /\ settings \in {st \in InitialSettings : st.continuousIteration}
  /\ SchedulerInit
  /\ probe = NoProbe

CappedStart == trace.starts = 0 /\ \E req \in LongRequests : handleStart(req, "high", 0)
CappedTick  == \E dt \in FrameDeltas : animate(dt, CappedHorizon)
CappedBatch == \E c \in Closures : runCalculationBatch(TRUE, c, CappedHorizon, 0)
CappedToggle == trace.starts = 0 /\ onToggleTimeDirection

CappedNext == CappedStart \/ CappedTick \/ CappedBatch \/ CappedToggle

SpecCapped == CappedInit /\ [][CappedNext]_vars

(* The event found last before this step.                                  *)
Previous == FoundEvents[Len(FoundEvents)]

Ordered(previous, next, dir) ==
  IF dir = 1 THEN next.startDate > previous.endDate
  ELSE next.endDate < previous.startDate

(* C28 (as claimed): within one continuous search the windows of          *)
(* consecutive found events are disjoint and ordered along the scan        *)
(* direction - forward, the next window starts after the previous one      *)
(* ends; backward, it ends before the previous one starts - also when the  *)
(* previous window stopped at the ten-year expansion cap.                  *)
C28_WindowsDisjointAndOrdered ==
  [][ ( /\ Appended /\ Len(FoundEvents) > 0
        /\ trace'.starts = trace.starts
        /\ settings.continuousIteration ) =>
        Ordered(Previous, Newest, timeDirection) ]_vars

====
